---- MODULE Spec2Model ----
(***************************************************************************)
(* Verification model of the PRZ core of superealityai-MYTH-OS/studio:     *)
(*   - StateManager   (state-manager.ts: createIdea, checkCrystallization) *)
(*   - GOOSEGUARD     (lib/prz/gooseguard.ts: detectLoop, beforeAction)    *)
(*   - ZAK Echo search (ai/flows/prz-validation.ts: searchZakEchoRegistry) *)
(*                                                                         *)
(* Numbers.  Resonance scores are held in thousandths (0.95 = 950).        *)
(* Match confidences are exact rationals held as a numerator over ConfOne  *)
(* (1.0 = 10000000, 0.85 = 8500000), so that the two clamped products of   *)
(* the search are computed without rounding.  Timestamps are milliseconds. *)
(***************************************************************************)
EXTENDS Integers, Sequences, FiniteSets, TLC

VARIABLES
    now,            \* Date.now(), in ms
    ideas,          \* the caller's idea: <<>> before createIdea, then <<idea>>
    lifecycleCall,  \* <<>> or <<c>>: the last checkCrystallization call
    actionHistory,  \* the caller's action history (Action[])
    guardCall,      \* <<>> or <<c>>: the last detectLoop / beforeAction call
    permittedLog,   \* every action onSubmit has let through, oldest first
    registry,       \* zakEchoRegistry (ZakEcho[])
    searchCall,     \* <<>> or <<c>>: the last searchZakEchoRegistry call
    tasks,          \* the concurrent callers: task -> its call in progress
    resonanceCall,  \* <<>> or <<c>>: the last measureResonance call
    harmonicCall,   \* <<>> or <<c>>: the last call into harmonic-field.ts
    pipeline        \* the runPrzPipeline call in progress (or the last one)

vars ==
    <<now, ideas, lifecycleCall, actionHistory, guardCall, permittedLog, registry, searchCall,
      tasks, resonanceCall, harmonicCall, pipeline>>

lifecycleVars == <<ideas, lifecycleCall>>
guardVars == <<actionHistory, guardCall, permittedLog>>
searchVars == <<registry, searchCall>>
concurrentVars == <<tasks>>
resonanceVars == <<resonanceCall>>
harmonicVars == <<harmonicCall>>
pipelineVars == <<pipeline>>

\* Bound of the concurrency model: the number of callers running at once.
MaxTasks == 2

Tasks == 1..MaxTasks

\* A caller that is not in a call.
IdleTask ==
    [ pc |-> "idle", op |-> "none", score |-> 0, candidate |-> <<>>, at |-> 0,
      idea |-> <<>>, history |-> <<>>, local |-> <<>>, result |-> <<>> ]

IdleTasks == [t \in Tasks |-> IdleTask]

\* No runPrzPipeline call has been made.
IdlePipeline ==
    [ pc |-> "idle", steps |-> <<>>, decoded |-> <<>>, intentResult |-> <<>>,
      zakEchoSearchResult |-> <<>>, validationResult |-> <<>>,
      mintingResult |-> <<>>, error |-> "" ]

Max(a, b) == IF a >= b THEN a ELSE b
Min(a, b) == IF a <= b THEN a ELSE b

(***************************************************************************)
(* Array.prototype.slice(start) with one argument: a negative start counts *)
(* from the end, and -0 is 0, so slice(-0) is the whole array.             *)
(***************************************************************************)
Slice(arr, start) ==
    LET len == Len(arr)
        k == IF start < 0 THEN Max(len + start, 0) ELSE Min(start, len)
    IN  SubSeq(arr, k + 1, len)

(***************************************************************************)
(*                          StateManager                                   *)
(***************************************************************************)
VAPOR == "vapor"
CRYSTAL == "crystal"

REALITY_THRESHOLD == 950

\* resonance.score > REALITY_THRESHOLD
shouldCrystallizeStrict(resonance) == resonance.score > REALITY_THRESHOLD

\* shouldCrystallize(resonance): resonance.score >= REALITY_THRESHOLD
shouldCrystallize(resonance) == resonance.score >= REALITY_THRESHOLD

DEFAULT_CONFIG ==
    [crystallizationThreshold |-> REALITY_THRESHOLD, vaporRevertThreshold |-> 3]

\* Bounds of the lifecycle model.
MaxReadings == 4     \* readings fed to one idea
MaxClock == 3        \* clock ticks of the lifecycle specification

\* resonance.score values fed to the idea (thousandths): 0.80, 0.949, 0.95.
Scores == {800, 949, 950}

\* StateTransitionConfig values passed by the caller; both fields are optional.
NoConfig == [k \in {} |-> 0]
Configs ==
    { NoConfig,
      "vaporRevertThreshold" :> 1,
      "vaporRevertThreshold" :> 0,
      ("crystallizationThreshold" :> 900) @@ ("vaporRevertThreshold" :> 2) }

IdeaIds == {"idea-1", "idea-2"}
IdeaContents == {"build authentication system"}
IdeaMetadata == {NoConfig, "domain" :> "web"}

\* { ...DEFAULT_CONFIG, ...config }
FullConfig(config) ==
    [k \in DOMAIN DEFAULT_CONFIG |->
        IF k \in DOMAIN config THEN config[k] ELSE DEFAULT_CONFIG[k]]

createIdea(id, content, metadata, t) ==
    [ id |-> id,
      content |-> content,
      state |-> VAPOR,
      resonanceHistory |-> <<>>,
      createdAt |-> t,
      lastStateChange |-> t,
      metadata |-> metadata ]

\* const updatedResonanceHistory = [...idea.resonanceHistory, resonance.score]
\* builds a new array; the argument's array is what it was.
UpdatedHistoryMutating(idea, score) ==
    [ arg |-> [idea EXCEPT !.resonanceHistory = Append(@, score)],
      updated |-> Append(idea.resonanceHistory, score) ]

UpdatedHistory(idea, score) ==
    [ arg |-> idea,
      updated |-> Append(idea.resonanceHistory, score) ]

\* idea.state === VAPOR && resonance.score >= fullConfig.crystallizationThreshold
ShouldPromoteStrict(idea, score, fullConfig) ==
    /\ idea.state = VAPOR
    /\ score > fullConfig.crystallizationThreshold

ShouldPromote(idea, score, fullConfig) ==
    /\ idea.state = VAPOR
    /\ score >= fullConfig.crystallizationThreshold

\* The body of `if (idea.state === CRYSTAL) { ... }`: the revert test.
ShouldRevertInclusive(idea, updatedHistory, fullConfig) ==
    /\ idea.state = CRYSTAL
    /\ LET recentReadings == Slice(updatedHistory, -fullConfig.vaporRevertThreshold)
       IN  /\ Len(recentReadings) >= fullConfig.vaporRevertThreshold
           /\ \A i \in 1..Len(recentReadings) :
                  recentReadings[i] <= fullConfig.crystallizationThreshold

ShouldRevert(idea, updatedHistory, fullConfig) ==
    /\ idea.state = CRYSTAL
    /\ LET recentReadings == Slice(updatedHistory, -fullConfig.vaporRevertThreshold)
           allBelowThreshold ==
               \A i \in 1..Len(recentReadings) :
                   recentReadings[i] < fullConfig.crystallizationThreshold
       IN  /\ Len(recentReadings) >= fullConfig.vaporRevertThreshold
           /\ allBelowThreshold

\* lastStateChange of the returned idea.
StateChangeStampAlways(idea, changed, t) == t

StateChangeStamp(idea, changed, t) ==
    IF changed THEN t ELSE idea.lastStateChange

\* The idea checkCrystallization returns, from the argument, the history built
\* from it and the time read at the start of the call: the two state checks and
\* the object spreads that follow the copy of the history.
UpdatedIdea(idea, updatedHistory, score, fullConfig, t) ==
    LET base == [idea EXCEPT !.resonanceHistory = updatedHistory]
        promote == ShouldPromote(idea, score, fullConfig)
        revert == ShouldRevert(idea, updatedHistory, fullConfig)
        afterPromote ==
            IF promote
            THEN [base EXCEPT !.state = CRYSTAL,
                              !.lastStateChange = StateChangeStamp(base, TRUE, t)]
            ELSE [base EXCEPT !.lastStateChange = StateChangeStamp(base, FALSE, t)]
    IN  IF revert
        THEN [afterPromote EXCEPT !.state = VAPOR,
                                  !.lastStateChange = StateChangeStamp(afterPromote, TRUE, t)]
        ELSE afterPromote

\* checkCrystallization(idea, resonance, config) at Date.now() = t.
\* .arg is the argument object as the call leaves it, .returned the result.
checkCrystallization(idea, resonance, config, t) ==
    LET fullConfig == FullConfig(config)
        h == UpdatedHistory(idea, resonance.score)
    IN  [ arg |-> h.arg,
          returned |-> UpdatedIdea(idea, h.updated, resonance.score, fullConfig, t) ]

----------------------------------------------------------------------------
\* Actions of the lifecycle specification.

LifecycleTick ==
    /\ now < MaxClock
    /\ now' = now + 1
    /\ UNCHANGED <<lifecycleVars, guardVars, searchVars, concurrentVars, resonanceVars, harmonicVars, pipelineVars>>

CreateIdea ==
    /\ ideas = <<>>
    /\ \E id \in IdeaIds, content \in IdeaContents, metadata \in IdeaMetadata :
          ideas' = <<createIdea(id, content, metadata, now)>>
    /\ UNCHANGED <<now, lifecycleCall, guardVars, searchVars, concurrentVars, resonanceVars, harmonicVars, pipelineVars>>

\* idea = checkCrystallization(idea, resonance, config), and
\* shouldCrystallize(resonance) for the same resonance, as the integration
\* guide reports both.
CheckCrystallization ==
    /\ ideas # <<>>
    /\ Len(ideas[1].resonanceHistory) < MaxReadings
    /\ \E score \in Scores, config \in Configs :
          LET out == checkCrystallization(ideas[1], [score |-> score], config, now)
          IN  /\ ideas' = <<out.returned>>
              /\ lifecycleCall' =
                    << [ idea |-> ideas[1],
                         score |-> score,
                         config |-> config,
                         at |-> now,
                         ideaAfter |-> out.arg,
                         returned |-> out.returned,
                         shouldCrystallize |-> shouldCrystallize([score |-> score]) ] >>
    /\ UNCHANGED <<now, guardVars, searchVars, concurrentVars, resonanceVars, harmonicVars, pipelineVars>>

LifecycleInit ==
    /\ now = 0
    /\ ideas = <<>>
    /\ lifecycleCall = <<>>
    /\ actionHistory = <<>>
    /\ guardCall = <<>>
    /\ permittedLog = <<>>
    /\ registry = <<>>
    /\ searchCall = <<>>
    /\ tasks = IdleTasks
    /\ resonanceCall = <<>>
    /\ harmonicCall = <<>>
    /\ pipeline = IdlePipeline

LifecycleNext ==
    \/ LifecycleTick
    \/ CreateIdea
    \/ CheckCrystallization

LifecycleSpec == LifecycleInit /\ [][LifecycleNext]_vars

\* idea = checkCrystallization(idea, resonance, config) by a caller that passes
\* the same config object on every call.
CheckCrystallizationSameConfig ==
    /\ ideas # <<>>
    /\ Len(ideas[1].resonanceHistory) < MaxReadings
    /\ \E score \in Scores, config \in Configs :
          /\ lifecycleCall # <<>> => config = lifecycleCall[1].config
          /\ LET out == checkCrystallization(ideas[1], [score |-> score], config, now)
             IN  /\ ideas' = <<out.returned>>
                 /\ lifecycleCall' =
                       << [ idea |-> ideas[1],
                            score |-> score,
                            config |-> config,
                            at |-> now,
                            ideaAfter |-> out.arg,
                            returned |-> out.returned,
                            shouldCrystallize |-> shouldCrystallize([score |-> score]) ] >>
    /\ UNCHANGED <<now, guardVars, searchVars, concurrentVars, resonanceVars, harmonicVars, pipelineVars>>

FixedConfigNext ==
    \/ LifecycleTick
    \/ CreateIdea
    \/ CheckCrystallizationSameConfig

FixedConfigSpec == LifecycleInit /\ [][FixedConfigNext]_vars

(***************************************************************************)
(*                            GOOSEGUARD                                   *)
(***************************************************************************)
LOOP_THRESHOLD == 3
LOOP_DETECTION_WINDOW == 300000

\* SIMILARITY_THRESHOLD = 0.7, in tenths.
SIMILARITY_THRESHOLD == 7

\* Bound of the guard model: the length of the caller's history.
MaxActions == 3

\* The instants of the guard specification (ms): an action stamped 1 is exactly
\* LOOP_DETECTION_WINDOW old at 300001, one stamped 0 is 1 ms older than that.
GuardTimes == {0, 1, LOOP_DETECTION_WINDOW + 1}

\* Strings are sequences of characters.
IsWhitespace(ch) == ch = " "

\* The letters of the texts; charCodeAt gives 97.. and 65.. for them.
LowerLetters ==
    << "a", "b", "c", "d", "e", "f", "g", "h", "i", "j", "k", "l", "m",
       "n", "o", "p", "q", "r", "s", "t", "u", "v", "w", "x", "y", "z" >>
UpperLetters ==
    << "A", "B", "C", "D", "E", "F", "G", "H", "I", "J", "K", "L", "M",
       "N", "O", "P", "Q", "R", "S", "T", "U", "V", "W", "X", "Y", "Z" >>

\* String.prototype.toLowerCase, one character at a time.
LowerOf ==
    [ch \in {UpperLetters[k] : k \in 1..26} |->
        LowerLetters[CHOOSE k \in 1..26 : UpperLetters[k] = ch]]

LowerChar(ch) == IF ch \in DOMAIN LowerOf THEN LowerOf[ch] ELSE ch

toLowerCase(str) == [i \in 1..Len(str) |-> LowerChar(str[i])]

\* new Set(str.split(/\s+/)): the pieces between maximal runs of whitespace;
\* a leading or trailing run, and the empty string, give an empty piece.
RECURSIVE SplitWordsFrom(_, _, _, _, _)
SplitWordsFrom(str, i, piece, inRun, acc) ==
    IF i > Len(str) THEN acc \cup {piece}
    ELSE IF IsWhitespace(str[i])
         THEN IF inRun
              THEN SplitWordsFrom(str, i + 1, piece, TRUE, acc)
              ELSE SplitWordsFrom(str, i + 1, <<>>, TRUE, acc \cup {piece})
         ELSE SplitWordsFrom(str, i + 1, Append(piece, str[i]), FALSE, acc)

WordSet(str) == SplitWordsFrom(str, 1, <<>>, FALSE, {})

\* Payloads: a string, a flat object (keys to primitive values), a number, null.
NoEntries == [k \in {} |-> 0]
StringPayload(str) == [kind |-> "string", chars |-> str, entries |-> NoEntries, value |-> 0]
ObjectPayload(obj) == [kind |-> "object", chars |-> <<>>, entries |-> obj, value |-> 0]
NumberPayload(n) == [kind |-> "number", chars |-> <<>>, entries |-> NoEntries, value |-> n]

SearchDocs == <<"s","e","a","r","c","h"," ","d","o","c","s">>
SearchDocsSpaced == <<"S","e","a","r","c","h"," "," ","D","O","C","S">>

\* Two objects that agree on 7 of the 10 keys they hold together, and the
\* empty object.
TenKeys ==
    [k \in {"k0", "k1", "k2", "k3", "k4", "k5", "k6", "k7", "k8", "k9"} |-> 1]
SevenKeys == [k \in {"k0", "k1", "k2", "k3", "k4", "k5", "k6"} |-> 1]

\* The (type, payload) pairs the callers of the model submit.
ActionShapes ==
    { [type |-> "query", payload |-> StringPayload(SearchDocs)],
      [type |-> "query", payload |-> StringPayload(SearchDocsSpaced)],
      [type |-> "create", payload |-> StringPayload(SearchDocs)],
      [type |-> "query", payload |-> ObjectPayload(TenKeys)],
      [type |-> "query", payload |-> ObjectPayload(SevenKeys)],
      [type |-> "query", payload |-> ObjectPayload(NoEntries)],
      [type |-> "query", payload |-> NumberPayload(7)] }

MakeAction(id, shape, timestamp) ==
    [id |-> id, type |-> shape.type, payload |-> shape.payload, timestamp |-> timestamp]

\* A similarity is the exact fraction num / den.
Fraction(num, den) == [num |-> num, den |-> den]

\* Jaccard similarity of the word sets of two string payloads.
StringSimilarity(p1, p2) ==
    LET words1 == WordSet(toLowerCase(p1.chars))
        words2 == WordSet(toLowerCase(p2.chars))
        intersection == words1 \cap words2
        union == words1 \cup words2
    IN  IF Cardinality(union) > 0
        THEN Fraction(Cardinality(intersection), Cardinality(union))
        ELSE Fraction(0, 1)

\* Key overlap of two object payloads.
ObjectSimilarity(p1, p2) ==
    LET keys1 == DOMAIN p1.entries
        keys2 == DOMAIN p2.entries
        matchingKeys == {key \in keys1 : key \in keys2 /\ p1.entries[key] = p2.entries[key]}
        totalKeys == Cardinality(keys1 \cup keys2)
    IN  IF totalKeys > 0
        THEN Fraction(Cardinality(matchingKeys), totalKeys)
        ELSE Fraction(0, 1)

\* action1.payload === action2.payload for payloads that are not two strings
\* and not two objects.
StrictEquals(p1, p2) ==
    /\ p1.kind = p2.kind
    /\ p1.kind \in {"number", "null"}
    /\ p1.value = p2.value

calculateActionSimilarity(action1, action2) ==
    IF action1.type # action2.type THEN Fraction(0, 1)
    ELSE IF action1.payload.kind = "string" /\ action2.payload.kind = "string"
    THEN StringSimilarity(action1.payload, action2.payload)
    ELSE IF action1.payload.kind = "object" /\ action2.payload.kind = "object"
    THEN ObjectSimilarity(action1.payload, action2.payload)
    ELSE IF StrictEquals(action1.payload, action2.payload)
         THEN Fraction(1, 1) ELSE Fraction(0, 1)

\* similarity > SIMILARITY_THRESHOLD
ExceedsThresholdInclusive(similarity) ==
    similarity.num * 10 >= SIMILARITY_THRESHOLD * similarity.den

ExceedsThreshold(similarity) ==
    similarity.num * 10 > SIMILARITY_THRESHOLD * similarity.den

\* now - action.timestamp <= LOOP_DETECTION_WINDOW
InWindowStrict(action, t) == t - action.timestamp < LOOP_DETECTION_WINDOW

InWindow(action, t) == t - action.timestamp <= LOOP_DETECTION_WINDOW

\* The whole array, no action filtered out.
RecentActionsUnfiltered(actions, t) == actions

\* actions.filter(action => now - action.timestamp <= LOOP_DETECTION_WINDOW)
RECURSIVE RecentActions(_, _)
RecentActions(actions, t) ==
    IF actions = <<>> THEN <<>>
    ELSE IF InWindow(Head(actions), t)
         THEN <<Head(actions)>> \o RecentActions(Tail(actions), t)
         ELSE RecentActions(Tail(actions), t)

\* The loop of detectLoop: 1 for the most recent action, plus one for every
\* earlier recent action similar to it.
SimilarCount(recentActions) ==
    LET mostRecentAction == recentActions[Len(recentActions)]
    IN  1 + Cardinality({ i \in 1..(Len(recentActions) - 1) :
              ExceedsThreshold(calculateActionSimilarity(mostRecentAction, recentActions[i])) })

NotDetected == [detected |-> FALSE]

\* detectLoop(actions) at Date.now() = t.
detectLoop(actions, t) ==
    IF Len(actions) < LOOP_THRESHOLD THEN NotDetected
    ELSE LET recentActions == RecentActions(actions, t) IN
         IF Len(recentActions) < LOOP_THRESHOLD THEN NotDetected
         ELSE LET similarCount == SimilarCount(recentActions)
                  pattern == recentActions[Len(recentActions)].type
              IN  IF similarCount >= LOOP_THRESHOLD
                  THEN [detected |-> TRUE, pattern |-> pattern, repetitions |-> similarCount]
                  ELSE NotDetected

\* String.prototype.toLowerCase on an action type.
LowerType(type) ==
    CASE type = "Query" -> "query"
      [] type = "Create" -> "create"
      [] OTHER -> type

generatePivotSuggestion(action) ==
    LET type == LowerType(action.type) IN
    CASE type \in {"query", "search"} -> "Try rephrasing your question or exploring a different aspect of the topic."
      [] type \in {"create", "generate"} -> "Consider refining your requirements or trying a different approach."
      [] type \in {"update", "modify"} -> "Try a different modification strategy or review the current state first."
      [] type \in {"delete", "remove"} -> "Verify the target exists and consider if removal is necessary."
      [] OTHER -> "Consider taking a different approach or exploring alternative options."

\* const actionsToAnalyze = [...actionHistory, action]
ActionsToAnalyzeHistoryOnly(action, history) == history

ActionsToAnalyze(action, history) == history \o <<action>>

\* The two return statements of beforeAction.  The reason string is held as
\* its parts: the fixed text, and the pattern and repetitions it quotes.
BeforeActionResult(action, loopDetection) ==
    IF loopDetection.detected
    THEN [ shouldProceed |-> FALSE,
           reason |-> [text |-> "Loop detected", pattern |-> <<loopDetection.pattern>>,
                       repetitions |-> <<loopDetection.repetitions>>],
           loopDetected |-> TRUE,
           suggestedPivot |-> generatePivotSuggestion(action) ]
    ELSE [ shouldProceed |-> TRUE,
           reason |-> [text |-> "No loops detected. Action may proceed.",
                       pattern |-> <<>>, repetitions |-> <<>>],
           loopDetected |-> FALSE ]

\* beforeAction(action, actionHistory) at Date.now() = t.
beforeAction(action, history, t) ==
    LET actionsToAnalyze == ActionsToAnalyze(action, history)
        loopDetection == detectLoop(actionsToAnalyze, t)
    IN  BeforeActionResult(action, loopDetection)

----------------------------------------------------------------------------
\* Actions of the guard specification.

GuardTick ==
    /\ guardCall = <<>>
    /\ \E t \in GuardTimes : t > now /\ now' = t
    /\ UNCHANGED <<actionHistory, guardCall, lifecycleVars, searchVars, concurrentVars, resonanceVars, harmonicVars, pipelineVars, permittedLog>>

\* The caller logs an action it has performed, stamped with the current time.
RecordAction ==
    /\ guardCall = <<>>
    /\ Len(actionHistory) < MaxActions
    /\ \E shape \in ActionShapes :
          actionHistory' =
              Append(actionHistory, MakeAction(Len(actionHistory) + 1, shape, now))
    /\ UNCHANGED <<now, guardCall, lifecycleVars, searchVars, concurrentVars, resonanceVars, harmonicVars, pipelineVars, permittedLog>>

\* detectLoop(actionHistory)
DetectLoop ==
    /\ guardCall = <<>>
    /\ guardCall' =
          << [ op |-> "detectLoop",
               actions |-> actionHistory,
               candidate |-> <<>>,
               at |-> now,
               detection |-> <<detectLoop(actionHistory, now)>>,
               result |-> <<>> ] >>
    /\ UNCHANGED <<now, actionHistory, lifecycleVars, searchVars, concurrentVars, resonanceVars, harmonicVars, pipelineVars, permittedLog>>

\* beforeAction(candidate, actionHistory); the candidate is stamped now, or
\* carries the oldest timestamp (a stale candidate).
BeforeAction ==
    /\ guardCall = <<>>
    /\ \E shape \in ActionShapes, ts \in {0, now} :
          LET candidate == MakeAction(Len(actionHistory) + 1, shape, ts) IN
          guardCall' =
              << [ op |-> "beforeAction",
                   actions |-> actionHistory,
                   candidate |-> <<candidate>>,
                   at |-> now,
                   detection |-> <<>>,
                   result |-> <<beforeAction(candidate, actionHistory, now)>> ] >>
    /\ UNCHANGED <<now, actionHistory, lifecycleVars, searchVars, concurrentVars, resonanceVars, harmonicVars, pipelineVars, permittedLog>>

\* The call returns; its record is dropped.
GuardReturn ==
    /\ guardCall # <<>>
    /\ guardCall' = <<>>
    /\ UNCHANGED <<now, actionHistory, lifecycleVars, searchVars, concurrentVars, resonanceVars, harmonicVars, pipelineVars, permittedLog>>

GuardInit ==
    /\ now = 0
    /\ ideas = <<>>
    /\ lifecycleCall = <<>>
    /\ actionHistory = <<>>
    /\ guardCall = <<>>
    /\ permittedLog = <<>>
    /\ registry = <<>>
    /\ searchCall = <<>>
    /\ tasks = IdleTasks
    /\ resonanceCall = <<>>
    /\ harmonicCall = <<>>
    /\ pipeline = IdlePipeline

GuardNext ==
    \/ GuardTick
    \/ RecordAction
    \/ DetectLoop
    \/ BeforeAction
    \/ GuardReturn

GuardSpec == GuardInit /\ [][GuardNext]_vars

----------------------------------------------------------------------------
\* detectLoop called twice on one history while the clock advances.

\* Instants of the calls: the GuardTimes, and one millisecond later.
WindowTimes == GuardTimes \cup {LOOP_DETECTION_WINDOW + 2}

\* Actions the caller logs: two queries that differ only in case and spacing,
\* and an action of another type.
RepeatShapes ==
    { [type |-> "query", payload |-> StringPayload(SearchDocs)],
      [type |-> "query", payload |-> StringPayload(SearchDocsSpaced)],
      [type |-> "create", payload |-> StringPayload(SearchDocs)] }

\* Date.now() advances, also between the two calls.
WindowTick ==
    /\ \E t \in WindowTimes : t > now /\ now' = t
    /\ UNCHANGED <<actionHistory, guardCall, lifecycleVars, searchVars, concurrentVars,
                   resonanceVars, harmonicVars, pipelineVars, permittedLog>>

\* The caller logs an action stamped with the current time; no call is pending.
RecordWindowAction ==
    /\ guardCall = <<>>
    /\ Len(actionHistory) < MaxActions
    /\ \E shape \in RepeatShapes :
          actionHistory' =
              Append(actionHistory, MakeAction(Len(actionHistory) + 1, shape, now))
    /\ UNCHANGED <<now, guardCall, lifecycleVars, searchVars, concurrentVars,
                   resonanceVars, harmonicVars, pipelineVars, permittedLog>>

\* detectLoop(actionHistory), a first time and then once more on the same array.
DetectLoopAgain ==
    /\ Len(guardCall) < 2
    /\ guardCall' =
          Append(guardCall,
                 [ op |-> "detectLoop",
                   actions |-> actionHistory,
                   candidate |-> <<>>,
                   at |-> now,
                   detection |-> <<detectLoop(actionHistory, now)>>,
                   result |-> <<>> ])
    /\ UNCHANGED <<now, actionHistory, lifecycleVars, searchVars, concurrentVars,
                   resonanceVars, harmonicVars, pipelineVars, permittedLog>>

WindowNext ==
    \/ WindowTick
    \/ RecordWindowAction
    \/ DetectLoopAgain
    \/ GuardReturn

WindowSpec == GuardInit /\ [][WindowNext]_vars

----------------------------------------------------------------------------
\* beforeAction over every action type generatePivotSuggestion distinguishes.

\* Bound of the pivot model: the length of the caller's history.
MaxTypedHistory == 3

\* Action.type values: the eight the switch names, one spelled with a capital,
\* and one the switch does not name.
ActionTypes ==
    { "query", "search", "create", "generate", "update", "modify",
      "delete", "remove", "Query", "navigate" }

\* Histories the caller holds: up to MaxTypedHistory actions logged at time 0,
\* each of any type, all with the payload 'search docs'.
TypedHistories ==
    UNION { { [i \in 1..n |->
                 MakeAction(i, [type |-> types[i], payload |-> StringPayload(SearchDocs)], 0)] :
              types \in [1..n -> ActionTypes] } :
            n \in 0..MaxTypedHistory }

\* beforeAction(candidate, actionHistory) for a candidate of any type, stamped now.
BeforeTypedAction ==
    /\ guardCall = <<>>
    /\ \E type \in ActionTypes :
          LET candidate ==
                  MakeAction(Len(actionHistory) + 1,
                             [type |-> type, payload |-> StringPayload(SearchDocs)], now)
          IN  guardCall' =
                  << [ op |-> "beforeAction",
                       actions |-> actionHistory,
                       candidate |-> <<candidate>>,
                       at |-> now,
                       detection |-> <<>>,
                       result |-> <<beforeAction(candidate, actionHistory, now)>> ] >>
    /\ UNCHANGED <<now, actionHistory, lifecycleVars, searchVars, concurrentVars, resonanceVars, harmonicVars, pipelineVars, permittedLog>>

PivotInit ==
    /\ now = 0
    /\ ideas = <<>>
    /\ lifecycleCall = <<>>
    /\ actionHistory \in TypedHistories
    /\ guardCall = <<>>
    /\ permittedLog = <<>>
    /\ registry = <<>>
    /\ searchCall = <<>>
    /\ tasks = IdleTasks
    /\ resonanceCall = <<>>
    /\ harmonicCall = <<>>
    /\ pipeline = IdlePipeline

PivotNext ==
    \/ GuardTick
    \/ BeforeTypedAction
    \/ GuardReturn

PivotSpec == PivotInit /\ [][PivotNext]_vars

(***************************************************************************)
(*        Concurrent callers of checkCrystallization and beforeAction      *)
(*                                                                         *)
(* The callers share one idea object (ideas[1]) and one history array      *)
(* (actionHistory) and pass them by reference.  A call runs in steps that  *)
(* other callers' steps may interleave with: it reads the clock, copies    *)
(* the array it was given, and builds its result from the argument and the *)
(* copy.                                                                   *)
(***************************************************************************)
\* The idea the callers share: a fresh one, a crystallized one one low reading
\* away from reverting, or one that has just crystallized.
SharedIdeas ==
    { createIdea("idea-1", "build authentication system", NoConfig, 0),
      [ createIdea("idea-1", "build authentication system", NoConfig, 0)
            EXCEPT !.state = CRYSTAL, !.resonanceHistory = <<950, 800, 800>> ],
      [ createIdea("idea-1", "build authentication system", NoConfig, 0)
            EXCEPT !.state = CRYSTAL, !.resonanceHistory = <<950>> ] }

\* The history the callers share: empty, or two queries logged at time 0.
SharedHistories ==
    { <<>>,
      << MakeAction(1, [type |-> "query", payload |-> StringPayload(SearchDocs)], 0),
         MakeAction(2, [type |-> "query", payload |-> StringPayload(SearchDocs)], 0) >> }

\* The readings and the candidates of the concurrent calls.
ConcurrentScores == {800, 950}
ConcurrentShapes ==
    { [type |-> "query", payload |-> StringPayload(SearchDocs)],
      [type |-> "create", payload |-> StringPayload(SearchDocs)] }

\* The clock moves past the detection window.
ConcurrentTick ==
    /\ now = 0
    /\ now' = LOOP_DETECTION_WINDOW + 1
    /\ UNCHANGED <<lifecycleVars, guardVars, searchVars, tasks, resonanceVars, harmonicVars, pipelineVars>>

\* checkCrystallization(idea, resonance) is entered: fullConfig is built and
\* Date.now() is read.
EnterCheckCrystallization(t) ==
    /\ tasks[t].pc = "idle"
    /\ \E score \in ConcurrentScores :
          tasks' = [tasks EXCEPT ![t] =
              [ IdleTask EXCEPT !.pc = "entered", !.op = "checkCrystallization",
                                !.score = score, !.at = now,
                                !.idea = ideas, !.history = actionHistory ]]
    /\ UNCHANGED <<now, lifecycleVars, guardVars, searchVars, resonanceVars, harmonicVars, pipelineVars>>

\* const updatedResonanceHistory = [...idea.resonanceHistory, resonance.score]
CopyResonanceHistory(t) ==
    /\ tasks[t].pc = "entered"
    /\ tasks[t].op = "checkCrystallization"
    /\ LET h == UpdatedHistory(ideas[1], tasks[t].score) IN
          /\ ideas' = <<h.arg>>
          /\ tasks' = [tasks EXCEPT ![t].pc = "copied", ![t].local = h.updated]
    /\ UNCHANGED <<now, lifecycleCall, guardVars, searchVars, resonanceVars, harmonicVars, pipelineVars>>

\* The rest of checkCrystallization: the state checks and the returned object.
ReturnUpdatedIdea(t) ==
    /\ tasks[t].pc = "copied"
    /\ tasks[t].op = "checkCrystallization"
    /\ tasks' = [tasks EXCEPT
          ![t].pc = "done",
          ![t].result = << UpdatedIdea(ideas[1], tasks[t].local, tasks[t].score,
                                       FullConfig(NoConfig), tasks[t].at) >>]
    /\ UNCHANGED <<now, lifecycleVars, guardVars, searchVars, resonanceVars, harmonicVars, pipelineVars>>

\* beforeAction(action, actionHistory) is entered with a candidate stamped now.
EnterBeforeAction(t) ==
    /\ tasks[t].pc = "idle"
    /\ \E shape \in ConcurrentShapes :
          tasks' = [tasks EXCEPT ![t] =
              [ IdleTask EXCEPT !.pc = "entered", !.op = "beforeAction",
                                !.candidate = <<MakeAction(Len(actionHistory) + 1, shape, now)>>,
                                !.idea = ideas, !.history = actionHistory ]]
    /\ UNCHANGED <<now, lifecycleVars, guardVars, searchVars, resonanceVars, harmonicVars, pipelineVars>>

\* const actionsToAnalyze = [...actionHistory, action]
CopyActionHistory(t) ==
    /\ tasks[t].pc = "entered"
    /\ tasks[t].op = "beforeAction"
    /\ tasks' = [tasks EXCEPT
          ![t].pc = "copied",
          ![t].local = ActionsToAnalyze(tasks[t].candidate[1], actionHistory)]
    /\ UNCHANGED <<now, lifecycleVars, guardVars, searchVars, resonanceVars, harmonicVars, pipelineVars>>

\* detectLoop(actionsToAnalyze), which reads Date.now(), and the return.
ReturnBeforeActionResult(t) ==
    /\ tasks[t].pc = "copied"
    /\ tasks[t].op = "beforeAction"
    /\ tasks' = [tasks EXCEPT
          ![t].pc = "done",
          ![t].at = now,
          ![t].result =
              << BeforeActionResult(tasks[t].candidate[1], detectLoop(tasks[t].local, now)) >>]
    /\ UNCHANGED <<now, lifecycleVars, guardVars, searchVars, resonanceVars, harmonicVars, pipelineVars>>

\* The caller has taken the result; it does not write it back to the shared
\* idea or history.
TaskDone(t) ==
    /\ tasks[t].pc = "done"
    /\ tasks' = [tasks EXCEPT ![t] = IdleTask]
    /\ UNCHANGED <<now, lifecycleVars, guardVars, searchVars, resonanceVars, harmonicVars, pipelineVars>>

ConcurrentInit ==
    /\ now = 0
    /\ \E idea \in SharedIdeas : ideas = <<idea>>
    /\ lifecycleCall = <<>>
    /\ actionHistory \in SharedHistories
    /\ guardCall = <<>>
    /\ permittedLog = <<>>
    /\ registry = <<>>
    /\ searchCall = <<>>
    /\ tasks = IdleTasks
    /\ resonanceCall = <<>>
    /\ harmonicCall = <<>>
    /\ pipeline = IdlePipeline

ConcurrentNext ==
    \/ ConcurrentTick
    \/ \E t \in Tasks : EnterCheckCrystallization(t)
    \/ \E t \in Tasks : CopyResonanceHistory(t)
    \/ \E t \in Tasks : ReturnUpdatedIdea(t)
    \/ \E t \in Tasks : EnterBeforeAction(t)
    \/ \E t \in Tasks : CopyActionHistory(t)
    \/ \E t \in Tasks : ReturnBeforeActionResult(t)
    \/ \E t \in Tasks : TaskDone(t)

ConcurrentSpec == ConcurrentInit /\ [][ConcurrentNext]_vars

(***************************************************************************)
(*        The caller protocol of the integration guide                     *)
(*        (UserInputForm.onSubmit, up to its call of runPrzPipeline)       *)
(***************************************************************************)
\* The 10 of `if (actionHistoryRef.current.length > 10)` and `slice(-10)`.
HISTORY_CAP == 10

\* Bound of the protocol model: the number of submissions let through.
MaxSubmissions == 12

\* The requests the user types: six different one-word requests.
Requests == << <<"a">>, <<"b">>, <<"c">>, <<"d">>, <<"e">>, <<"f">> >>

\* The user's next request: the one submitted last time again, or the next
\* one of the list, starting over after the last.
NextRequests ==
    LET last == IF permittedLog = <<>> THEN 1
                ELSE CHOOSE k \in 1..Len(Requests) :
                         StringPayload(Requests[k]) = permittedLog[Len(permittedLog)].payload
    IN  {Requests[last], Requests[(last % Len(Requests)) + 1]}

\* The first HISTORY_CAP entries instead of the last.
KeepOldest(history) ==
    IF Len(history) > HISTORY_CAP THEN SubSeq(history, 1, HISTORY_CAP) ELSE history

\* if (history.length > 10) history = history.slice(-10)
KeepLatest(history) ==
    IF Len(history) > HISTORY_CAP THEN Slice(history, -HISTORY_CAP) ELSE history

\* onSubmit(data): the action is built, checked with beforeAction against the
\* kept history and, when permitted, appended; the history is then cut.
OnSubmit ==
    /\ Len(permittedLog) < MaxSubmissions
    /\ \E request \in NextRequests :
          LET newAction == [ id |-> Len(permittedLog) + 1,
                             type |-> "query",
                             payload |-> StringPayload(request),
                             timestamp |-> now ]
              gooseguardResult == beforeAction(newAction, actionHistory, now)
          IN  /\ guardCall' =
                    << [ op |-> "onSubmit",
                         actions |-> actionHistory,
                         candidate |-> <<newAction>>,
                         at |-> now,
                         detection |-> <<>>,
                         result |-> <<gooseguardResult>>,
                         log |-> permittedLog ] >>
              /\ IF gooseguardResult.shouldProceed
                 THEN /\ actionHistory' = KeepLatest(actionHistory \o <<newAction>>)
                      /\ permittedLog' = Append(permittedLog, newAction)
                 ELSE UNCHANGED <<actionHistory, permittedLog>>
    /\ UNCHANGED <<now, lifecycleVars, searchVars, concurrentVars, resonanceVars,
                   harmonicVars, pipelineVars>>

SubmitNext ==
    \/ ConcurrentTick
    \/ OnSubmit

SubmitSpec == GuardInit /\ [][SubmitNext]_vars

(***************************************************************************)
(*                         ZAK Echo Registry search                        *)
(***************************************************************************)
\* 1.0 as a confidence numerator: a confidence c is held as c * ConfOne.
ConfOne == 10000000

\* The 0.85 of `matchConfidence >= 0.85`.
APPLY_THRESHOLD == 8500000

\* Bound of the search model: the number of echoes in the registry.
MaxRegistry == 3

\* Values calculatePatternMatchConfidence(userIntent, echo.pattern) returns for
\* the registry's patterns (in ten-thousandths): 0, 0.7727, 0.8499, 0.85, 1.
BaseConfidences == {0, 7727, 8499, 8500, 10000}

Pending == <<"P","e","n","d","i","n","g">>

\* Registry entries: four of zakEchoRegistry, and one PENDING echo whose
\* validated field holds no number.  confidence is in hundredths.
Echoes ==
    { [ id |-> "zak_complete_100_percent", title |-> "Complete-100-Percent",
        pattern |-> "When user says 'continue', complete to 100% WITHOUT asking",
        confidence |-> 97, validated |-> <<"3","x">>,
        performance |-> "+740% flow improvement", ttl |-> "PERMANENT" ],
      [ id |-> "zak_open_ended_sections", title |-> "Open-Ended-Section-Handler",
        pattern |-> "For open-ended sections, provide 3-5 concrete points then close",
        confidence |-> 89, validated |-> <<"2","x">>,
        performance |-> "Prevents scope creep", ttl |-> "PERMANENT" ],
      [ id |-> "zak_audit_means_both", title |-> "Audit-Means-Both",
        pattern |-> "When user says \"audit X\", interpret as \"validate X AND optimize X\"",
        confidence |-> 87, validated |-> Pending,
        performance |-> "TBD", ttl |-> "PERMANENT" ],
      [ id |-> "zak_decode_then_execute", title |-> "Decode-Then-Execute",
        pattern |-> "Always decode intent to 0.90+ confidence before executing. If ambiguous, choose highest-value interpretation.",
        confidence |-> 92, validated |-> Pending,
        performance |-> "TBD", ttl |-> "PERMANENT" ],
      [ id |-> "zak_draft", title |-> "Draft",
        pattern |-> "Draft pattern awaiting validation",
        confidence |-> 95, validated |-> <<"n","/","a">>,
        performance |-> "TBD", ttl |-> "PENDING" ] }

\* The registries of the model: sequences of distinct echoes.
Registries ==
    UNION { { r \in [1..n -> Echoes] : \A i, j \in 1..n : r[i] = r[j] => i = j } :
            n \in 0..MaxRegistry }

SearchInputs ==
    [ userIntent : {"continue the audit"},
      intentClassification : {"command", "question"},
      domain : {"general"} ]

\* str.replace('x', ''): the first 'x' is removed.
RECURSIVE ReplaceFirstX(_)
ReplaceFirstX(str) ==
    IF str = <<>> THEN <<>>
    ELSE IF Head(str) = "x" THEN Tail(str)
         ELSE <<Head(str)>> \o ReplaceFirstX(Tail(str))

Digits == <<"0", "1", "2", "3", "4", "5", "6", "7", "8", "9">>
IsDigit(ch) == \E d \in 1..10 : Digits[d] = ch
DigitValue(ch) == (CHOOSE d \in 1..10 : Digits[d] = ch) - 1

\* The digits of parseInt: the longest run of decimal digits from position i.
RECURSIVE ParseDigits(_, _, _, _)
ParseDigits(str, i, value, seen) ==
    IF i <= Len(str) /\ IsDigit(str[i])
    THEN ParseDigits(str, i + 1, value * 10 + DigitValue(str[i]), TRUE)
    ELSE [nan |-> ~seen, value |-> value]

RECURSIVE SkipWhitespace(_, _)
SkipWhitespace(str, i) ==
    IF i <= Len(str) /\ IsWhitespace(str[i]) THEN SkipWhitespace(str, i + 1) ELSE i

\* parseInt(str): leading whitespace, an optional sign, then decimal digits;
\* NaN when no digit follows.
parseInt(str) ==
    LET start == SkipWhitespace(str, 1)
        signed == start <= Len(str) /\ str[start] \in {"-", "+"}
        negative == signed /\ str[start] = "-"
        parsed == ParseDigits(str, IF signed THEN start + 1 ELSE start, 0, FALSE)
    IN  [nan |-> parsed.nan, value |-> IF negative THEN -parsed.value ELSE parsed.value]

\* Math.min(x, 1.0)
ClampOff(x) == x

Clamp(x) == Min(x, ConfOne)

\* The validation boost of a match confidence held over ConfOne:
\* Math.min(matchConfidence * (1 + validationCount * 0.05), 1.0).
ValidationBoost(matchConfidence, echo) ==
    IF echo.validated # Pending
    THEN LET validationCount == parseInt(ReplaceFirstX(echo.validated)) IN
         IF ~validationCount.nan
         THEN Clamp((matchConfidence * (100 + validationCount.value * 5)) \div 100)
         ELSE matchConfidence
    ELSE matchConfidence

\* Math.min(matchConfidence * 1.1, 1.0) for a PERMANENT echo of confidence >= 0.9.
PermanentBoost(matchConfidence, echo) ==
    IF echo.ttl = "PERMANENT" /\ echo.confidence >= 90
    THEN Clamp((matchConfidence * 11) \div 10)
    ELSE matchConfidence

\* matchConfidence >= 0.85
ShouldApplyStrict(matchConfidence) == matchConfidence > APPLY_THRESHOLD

ShouldApply(matchConfidence) == matchConfidence >= APPLY_THRESHOLD

\* The callback of zakEchoRegistry.map: baseConfidence is what
\* calculatePatternMatchConfidence returned, in ten-thousandths.
MatchOf(echo, baseConfidence) ==
    LET matchConfidence ==
            PermanentBoost(ValidationBoost(baseConfidence * (ConfOne \div 10000), echo), echo)
    IN  [ echo |-> echo,
          matchConfidence |-> matchConfidence,
          shouldApply |-> ShouldApply(matchConfidence) ]

\* One step of matches.sort((a, b) => b.matchConfidence - a.matchConfidence),
\* a stable sort: m goes behind every sorted entry that is not smaller.
InsertBefore(sorted, m) ==
    LET ahead == {i \in 1..Len(sorted) : sorted[i].matchConfidence > m.matchConfidence}
        k == Cardinality(ahead)
    IN  SubSeq(sorted, 1, k) \o <<m>> \o SubSeq(sorted, k + 1, Len(sorted))

InsertStable(sorted, m) ==
    LET ahead == {i \in 1..Len(sorted) : sorted[i].matchConfidence >= m.matchConfidence}
        k == Cardinality(ahead)
    IN  SubSeq(sorted, 1, k) \o <<m>> \o SubSeq(sorted, k + 1, Len(sorted))

RECURSIVE SortMatches(_, _)
SortMatches(sorted, rest) ==
    IF rest = <<>> THEN sorted
    ELSE SortMatches(InsertStable(sorted, Head(rest)), Tail(rest))

\* bestMatch && bestMatch.shouldApply ? bestMatch.echo.pattern : null
\* (null is the empty sequence, a value v is <<v>>).
AppliedPattern(bestMatch) ==
    IF bestMatch # <<>> /\ bestMatch[1].shouldApply
    THEN <<bestMatch[1].echo.pattern>> ELSE <<>>

\* searchZakEchoRegistry with the classification taken into the score, which
\* the code does not do: a 'command' would add 0.05 to every base confidence.
searchZakEchoRegistryByClassification(input, reg, base) ==
    LET boosted == [i \in 1..Len(reg) |->
                       IF input.intentClassification = "command"
                       THEN Min(base[i] + 500, 10000) ELSE base[i]]
        mapped == [i \in 1..Len(reg) |-> MatchOf(reg[i], boosted[i])]
        matches == SortMatches(<<>>, mapped)
        bestMatch == IF Len(matches) > 0 THEN <<matches[1]>> ELSE <<>>
    IN  [ matches |-> matches,
          bestMatch |-> bestMatch,
          appliedPattern |-> AppliedPattern(bestMatch) ]

\* searchZakEchoRegistry(input) over the registry reg; base[i] is the value of
\* calculatePatternMatchConfidence(input.userIntent, reg[i].pattern).
searchZakEchoRegistry(input, reg, base) ==
    LET mapped == [i \in 1..Len(reg) |-> MatchOf(reg[i], base[i])]
        matches == SortMatches(<<>>, mapped)
        bestMatch == IF Len(matches) > 0 THEN <<matches[1]>> ELSE <<>>
    IN  [ matches |-> matches,
          bestMatch |-> bestMatch,
          appliedPattern |-> AppliedPattern(bestMatch) ]

\* The array zakEchoRegistry after a search, had matches.sort(...) been applied
\* to the registry array itself.
RegistryAfterSortInPlace(reg, base) ==
    LET matches == searchZakEchoRegistry([userIntent |-> ""], reg, base).matches
    IN  [i \in 1..Len(reg) |-> matches[i].echo]

\* The array zakEchoRegistry after a search: zakEchoRegistry.map(...) builds a
\* new array, and matches.sort(...) reorders that new array in place; the
\* echoes are referenced by the matches and never written.
RegistryAfterSearch(reg, base) == reg

----------------------------------------------------------------------------
\* Actions of the search specification.

\* await searchZakEchoRegistry({userIntent, intentClassification, domain})
Search ==
    /\ searchCall = <<>>
    /\ \E input \in SearchInputs, base \in [1..Len(registry) -> BaseConfidences] :
          /\ searchCall' =
                << [ input |-> input,
                     registry |-> registry,
                     base |-> base,
                     output |-> searchZakEchoRegistry(input, registry, base) ] >>
          /\ registry' = RegistryAfterSearch(registry, base)
    /\ UNCHANGED <<now, lifecycleVars, guardVars, concurrentVars, resonanceVars, harmonicVars, pipelineVars>>

\* The caller is done with the result.
SearchReturn ==
    /\ searchCall # <<>>
    /\ searchCall' = <<>>
    /\ UNCHANGED <<now, registry, lifecycleVars, guardVars, concurrentVars, resonanceVars, harmonicVars, pipelineVars>>

SearchInit ==
    /\ now = 0
    /\ ideas = <<>>
    /\ lifecycleCall = <<>>
    /\ actionHistory = <<>>
    /\ guardCall = <<>>
    /\ permittedLog = <<>>
    /\ registry \in Registries
    /\ searchCall = <<>>
    /\ tasks = IdleTasks
    /\ resonanceCall = <<>>
    /\ harmonicCall = <<>>
    /\ pipeline = IdlePipeline

SearchNext ==
    \/ Search
    \/ SearchReturn

SearchSpec == SearchInit /\ [][SearchNext]_vars

----------------------------------------------------------------------------
\* Two searches over one registry with the same intent text.

\* Classification and domain values a caller passes: the classifications of
\* the intent decoder and free-text domains (the default, another, none).
Classifications == {"command", "question"}
Domains == {"general", "finance", ""}

\* Values of calculatePatternMatchConfidence for the pairs (ten-thousandths):
\* one that the boosts lift over 0.85 and one at 0.85.
PairConfidences == {7727, 8500}

\* await searchZakEchoRegistry(first); await searchZakEchoRegistry(second):
\* first and second carry the same userIntent, so that
\* calculatePatternMatchConfidence(userIntent, echo.pattern), a function of
\* its two texts, gives both calls the same base confidence per echo.
SearchTwice ==
    /\ searchCall = <<>>
    /\ \E userIntent \in {"continue the audit"},
          classifications \in Classifications \X Classifications,
          domains \in Domains \X Domains,
          base \in [1..Len(registry) -> PairConfidences] :
          LET InputOf(k) == [ userIntent |-> userIntent,
                              intentClassification |-> classifications[k],
                              domain |-> domains[k] ]
              after == RegistryAfterSearch(registry, base)
              CallOf(k, reg) == [ input |-> InputOf(k),
                                  registry |-> reg,
                                  base |-> base,
                                  output |-> searchZakEchoRegistry(InputOf(k), reg, base) ]
          IN  /\ searchCall' = <<CallOf(1, registry), CallOf(2, after)>>
              /\ registry' = RegistryAfterSearch(after, base)
    /\ UNCHANGED <<now, lifecycleVars, guardVars, concurrentVars, resonanceVars, harmonicVars, pipelineVars>>

SearchPairNext ==
    \/ SearchTwice
    \/ SearchReturn

SearchPairSpec == SearchInit /\ [][SearchPairNext]_vars

(***************************************************************************)
(*        The two boosts in the arithmetic of the code                     *)
(*                                                                         *)
(* matchConfidence is an IEEE 754 binary64 number.  A positive double is   *)
(* held as [m, e]: value = M * 2^e, where M, 2^52 <= M < 2^53, is written  *)
(* in five limbs of 13 bits, least significant first (so m[5] = 1); zero   *)
(* has all limbs 0.  Products are rounded to nearest, ties to even.        *)
(***************************************************************************)
\* 2^13: four limbs are the 52 fraction bits of a double.
Limb == 8192

DoubleZero == [m |-> <<0, 0, 0, 0, 0>>, e |-> 0]
DoubleOne == [m |-> <<0, 0, 0, 0, 1>>, e |-> -52]

IsDoubleZero(x) == x.m[5] = 0

\* x < y for doubles that are zero or positive.
DoubleLess(x, y) ==
    IF IsDoubleZero(y) THEN FALSE
    ELSE IF IsDoubleZero(x) THEN TRUE
    ELSE \/ x.e < y.e
         \/ /\ x.e = y.e
            /\ \E k \in 1..5 : /\ x.m[k] < y.m[k]
                                /\ \A j \in (k + 1)..5 : x.m[j] = y.m[j]

\* Limb k of the unnormalised product of two mantissas: the sum of the limb
\* products of that weight.
ProductLimb(a, b, k) ==
    LET Term(i) == IF (k + 1 - i) \in 1..5 THEN a[i] * b[k + 1 - i] ELSE 0
    IN  Term(1) + Term(2) + Term(3) + Term(4) + Term(5)

\* The carries of the product taken up, limb by limb.
RECURSIVE CarryLimbs(_, _, _)
CarryLimbs(raw, carry, acc) ==
    IF raw = <<>> THEN acc
    ELSE LET v == Head(raw) + carry
         IN  CarryLimbs(Tail(raw), v \div Limb, Append(acc, v % Limb))

\* mantissa + 1, in limbs (the result may have m[5] = 2).
RECURSIVE IncrementLimbs(_, _)
IncrementLimbs(m, k) ==
    IF k = 5 \/ m[k] + 1 < Limb THEN [m EXCEPT ![k] = @ + 1]
    ELSE IncrementLimbs([m EXCEPT ![k] = 0], k + 1)

\* The double whose mantissa is q + 1 when up, else q; 2^53 is 2^52 with the
\* exponent one higher.
Rounded(q, e, up) ==
    LET r == IF up THEN IncrementLimbs(q, 1) ELSE q
    IN  IF r[5] = 2 THEN [m |-> <<0, 0, 0, 0, 1>>, e |-> e + 1]
        ELSE [m |-> r, e |-> e]

\* Round to nearest, ties to even: up when the discarded bits are more than
\* half a unit, or exactly half and the kept mantissa is odd.
RoundsUp(discardedHalf, discardedRest, odd) ==
    discardedHalf /\ (discardedRest \/ odd)

\* x * y for doubles that are zero or positive (no overflow or underflow in
\* the range of a confidence).
DoubleTimes(x, y) ==
    IF IsDoubleZero(x) \/ IsDoubleZero(y) THEN DoubleZero
    ELSE LET p == CarryLimbs([k \in 1..10 |-> ProductLimb(x.m, y.m, k)], 0, <<>>)
             low == SubSeq(p, 1, 4)
             high == SubSeq(p, 5, 9)
         IN  IF high[5] >= 2
             THEN \* 2^105 <= product: 53 bits are discarded
                  LET q == [k \in 1..5 |->
                               (high[k] \div 2)
                               + (IF k < 5 THEN (high[k + 1] % 2) * (Limb \div 2) ELSE 0)]
                  IN  Rounded(q, x.e + y.e + 53,
                              RoundsUp(high[1] % 2 = 1,
                                       low # <<0, 0, 0, 0>>,
                                       q[1] % 2 = 1))
             ELSE \* product < 2^105: 52 bits are discarded
                  Rounded(high, x.e + y.e + 52,
                          RoundsUp(low[4] >= Limb \div 2,
                                   low # <<0, 0, 0, Limb \div 2>>,
                                   high[1] % 2 = 1))

\* Math.min(x, 1.0) left out: x as it is.
MathMinOneOff(x) == x

\* Math.min(x, 1.0)
MathMinOne(x) == IF DoubleLess(DoubleOne, x) THEN DoubleOne ELSE x

----------------------------------------------------------------------------
\* The boosts of zakEchoRegistry.map's callback over doubles.

\* The largest validationCount of an echo ('0x' .. '4x').
MaxValidationCount == 4

\* The doubles 1 + validationCount * 0.05 for validationCount = 0, 1, ..., 6
\* (1, 1.05, 1.1, 1.15, 1.2, 1.25, 1.3 as binary64 computes them).
ValidationFactors ==
    << [m |-> <<0, 0, 0, 0, 1>>, e |-> -52],
       [m |-> <<3277, 1638, 4915, 409, 1>>, e |-> -52],
       [m |-> <<6554, 3276, 1638, 819, 1>>, e |-> -52],
       [m |-> <<1638, 4915, 6553, 1228, 1>>, e |-> -52],
       [m |-> <<4915, 6553, 3276, 1638, 1>>, e |-> -52],
       [m |-> <<0, 0, 0, 2048, 1>>, e |-> -52],
       [m |-> <<3277, 1638, 4915, 2457, 1>>, e |-> -52] >>

\* The literals 1.1 and 0.85 as doubles.
DoublePermanentFactor == [m |-> <<6554, 3276, 1638, 819, 1>>, e |-> -52]
DoubleApplyThreshold == [m |-> <<4915, 6553, 3276, 5734, 1>>, e |-> -53]

\* Base confidences in [0, 1], as doubles:
\* 0.0, 1.0, 0.5, 0.85, 0.8499, 0.7727, 0.9, 0.95, 0.6719367588932805,
\* 0.6439393939393938, 0.2550690257394217, 0.65950375, 0.6659459375,
\* 0.583743125, 0.7, 0.3, 0.0001, 0.75, 0.8, 0.6, 0.65, 0.1, 0.99,
\* 0.7391304347826086, 0.5803000460125052, 0.8658008658008657
DoubleBases ==
    { [m |-> <<0, 0, 0, 0, 0>>, e |-> 0],
      [m |-> <<0, 0, 0, 0, 1>>, e |-> -52],
      [m |-> <<0, 0, 0, 0, 1>>, e |-> -53],
      [m |-> <<4915, 6553, 3276, 5734, 1>>, e |-> -53],
      [m |-> <<6737, 222, 6239, 5732, 1>>, e |-> -53],
      [m |-> <<4221, 3486, 7510, 4467, 1>>, e |-> -53],
      [m |-> <<3277, 1638, 4915, 6553, 1>>, e |-> -53],
      [m |-> <<1638, 4915, 6553, 7372, 1>>, e |-> -53],
      [m |-> <<2298, 1133, 97, 2817, 1>>, e |-> -53],
      [m |-> <<3226, 3475, 2482, 2358, 1>>, e |-> -53],
      [m |-> <<8028, 1931, 834, 166, 1>>, e |-> -54],
      [m |-> <<7178, 7638, 2534, 2613, 1>>, e |-> -53],
      [m |-> <<3599, 5751, 7030, 2718, 1>>, e |-> -53],
      [m |-> <<6546, 7971, 387, 1372, 1>>, e |-> -53],
      [m |-> <<1638, 4915, 6553, 3276, 1>>, e |-> -53],
      [m |-> <<4915, 6553, 3276, 1638, 1>>, e |-> -54],
      [m |-> <<813, 6370, 6330, 5229, 1>>, e |-> -66],
      [m |-> <<0, 0, 0, 4096, 1>>, e |-> -53],
      [m |-> <<6554, 3276, 1638, 4915, 1>>, e |-> -53],
      [m |-> <<4915, 6553, 3276, 1638, 1>>, e |-> -53],
      [m |-> <<3277, 1638, 4915, 2457, 1>>, e |-> -53],
      [m |-> <<6554, 3276, 1638, 4915, 1>>, e |-> -56],
      [m |-> <<1966, 5898, 1310, 8028, 1>>, e |-> -53],
      [m |-> <<4986, 5342, 7479, 3917, 1>>, e |-> -53],
      [m |-> <<5712, 6013, 5209, 1315, 1>>, e |-> -53],
      [m |-> <<4751, 886, 2305, 5993, 1>>, e |-> -53] }

\* matchConfidence = Math.min(matchConfidence * (1 + validationCount * 0.05), 1.0)
ValidationBoostDouble(matchConfidence, validationCount) ==
    MathMinOne(DoubleTimes(matchConfidence, ValidationFactors[validationCount + 1]))

\* matchConfidence = Math.min(matchConfidence * 1.1, 1.0)
PermanentBoostDouble(matchConfidence) ==
    MathMinOne(DoubleTimes(matchConfidence, DoublePermanentFactor))

\* matchConfidence >= 0.85
ShouldApplyDouble(matchConfidence) == ~DoubleLess(matchConfidence, DoubleApplyThreshold)

\* The order of the code: the validation boost, then the permanent boost.
BoostsInCodeOrder(baseConfidence, validationCount) ==
    PermanentBoostDouble(ValidationBoostDouble(baseConfidence, validationCount))

\* The opposite order: the permanent boost, then the validation boost.
BoostsInOppositeOrder(baseConfidence, validationCount) ==
    ValidationBoostDouble(PermanentBoostDouble(baseConfidence), validationCount)

\* The next double above a positive double x.
DoubleSucc(x) == Rounded(x.m, x.e, TRUE)

\* y is x or one of the k doubles that follow x.
RECURSIVE StepsUp(_, _, _)
StepsUp(x, y, k) ==
    \/ x = y
    \/ /\ k > 0
       /\ ~IsDoubleZero(x)
       /\ StepsUp(DoubleSucc(x), y, k - 1)

\* x and y are at most k units in the last place apart.
WithinUlps(x, y, k) == StepsUp(x, y, k) \/ StepsUp(y, x, k)

\* The callback of zakEchoRegistry.map for an echo validated validationCount
\* times, PERMANENT and of confidence >= 0.9, so that both boosts apply; the
\* record also holds what the opposite boost order would have given.
ApplyBoosts ==
    /\ searchCall = <<>>
    /\ \E baseConfidence \in DoubleBases, validationCount \in 0..MaxValidationCount :
          LET matchConfidence == BoostsInCodeOrder(baseConfidence, validationCount)
              swapped == BoostsInOppositeOrder(baseConfidence, validationCount)
          IN  searchCall' =
                << [ op |-> "boosts",
                     baseConfidence |-> baseConfidence,
                     validationCount |-> validationCount,
                     matchConfidence |-> matchConfidence,
                     shouldApply |-> ShouldApplyDouble(matchConfidence),
                     swapped |-> swapped,
                     swappedShouldApply |-> ShouldApplyDouble(swapped) ] >>
    /\ UNCHANGED <<now, registry, lifecycleVars, guardVars, concurrentVars, resonanceVars, harmonicVars, pipelineVars>>

BoostNext ==
    \/ ApplyBoosts
    \/ SearchReturn

\* The callback sees one echo at a time: registries of at most one echo.
BoostInit ==
    /\ SearchInit
    /\ Len(registry) <= 1

BoostSpec == BoostInit /\ [][BoostNext]_vars

(***************************************************************************)
(*                          ResonanceEngine                                *)
(*                                                                         *)
(* Numbers are exact rationals [num, den] in lowest terms with den > 0.    *)
(* Direction vectors have integer components and an integer length, so     *)
(* that Math.sqrt of the sum of squares is exact.                          *)
(***************************************************************************)
Abs(x) == IF x < 0 THEN -x ELSE x

RECURSIVE GCD(_, _)
GCD(a, b) == IF b = 0 THEN a ELSE GCD(b, a % b)

\* NaN, the value of 0 / 0: every operation on it gives NaN and every
\* comparison with it is false.
NaN == [num |-> 0, den |-> 0]
IsNaN(a) == a.den = 0

\* The rational num / den in lowest terms; den = 0 arises only as 0 / 0.
Rat(num, den) ==
    IF den = 0 THEN NaN
    ELSE LET g == GCD(Abs(num), Abs(den))
             sign == IF den < 0 THEN -1 ELSE 1
         IN  [num |-> sign * (num \div g), den |-> sign * (den \div g)]

RAdd(a, b) ==
    IF IsNaN(a) \/ IsNaN(b) THEN NaN
    ELSE Rat(a.num * b.den + b.num * a.den, a.den * b.den)
RSub(a, b) ==
    IF IsNaN(a) \/ IsNaN(b) THEN NaN
    ELSE Rat(a.num * b.den - b.num * a.den, a.den * b.den)
RMul(a, b) ==
    IF IsNaN(a) \/ IsNaN(b) THEN NaN
    ELSE Rat(a.num * b.num, a.den * b.den)
RDiv(a, b) ==
    IF IsNaN(a) \/ IsNaN(b) THEN NaN
    ELSE Rat(a.num * b.den, a.den * b.num)
RAbs(a) == [num |-> Abs(a.num), den |-> a.den]
RLeq(a, b) == ~IsNaN(a) /\ ~IsNaN(b) /\ a.num * b.den <= b.num * a.den
RZero == Rat(0, 1)
ROne == Rat(1, 1)

\* Bound of the resonance model: the length of a direction vector.
MaxDirection == 2

\* The components of the direction vectors.
Components == {-3, 0, 4}

RECURSIVE SumOfSquares(_)
SumOfSquares(vector) ==
    IF vector = <<>> THEN 0
    ELSE Head(vector) * Head(vector) + SumOfSquares(Tail(vector))

IsSquare(n) == \E r \in 0..n : r * r = n

\* Math.sqrt on a perfect square.
Sqrt(n) == CHOOSE r \in 0..n : r * r = n

\* number[] values for pulse.direction and context.expectedDirection: the
\* vectors over Components of an integer length, the empty vector included.
Directions ==
    UNION { { v \in [1..n -> Components] : IsSquare(SumOfSquares(v)) } :
            n \in 0..MaxDirection }

\* pulse.magnitude, pulse.frequency and context.systemFrequency, in [0, 1].
UnitValues == {Rat(0, 1), Rat(1, 2), Rat(1, 1)}

\* context.patterns: no samples, samples inside [0, 1], and samples that are
\* numbers outside [0, 1].
PatternLists ==
    { <<>>,
      <<Rat(1, 2)>>,
      <<Rat(1, 5), Rat(2, 5)>>,
      <<Rat(5, 1)>>,
      <<Rat(-1, 1), Rat(0, 1)>> }

Pulses ==
    [ content : {"build authentication system"},
      direction : Directions,
      magnitude : UnitValues,
      frequency : {Rat(0, 1), Rat(1, 1)} ]

Contexts ==
    [ state : {"active"},
      patterns : PatternLists,
      expectedDirection : Directions,
      systemFrequency : {Rat(0, 1), Rat(1, 2)} ]

\* A call either returns a value or throws an Error with a message.
Returned(value) == [threw |-> FALSE, message |-> "", value |-> <<value>>]
Threw(message) == [threw |-> TRUE, message |-> message, value |-> <<>>]

\* a.reduce((sum, val, i) => sum + val * b[i], 0) over the first n elements.
RECURSIVE DotSum(_, _, _)
DotSum(a, b, n) ==
    IF n = 0 THEN RZero ELSE RAdd(DotSum(a, b, n - 1), RMul(a[n], b[n]))

\* dotProduct(a, b): the sum over the shorter length, with no length check.
dotProductTruncating(a, b) == Returned(DotSum(a, b, Min(Len(a), Len(b))))

dotProduct(a, b) ==
    IF Len(a) # Len(b) THEN Threw("Vectors must have the same length")
    ELSE Returned(DotSum(a, b, Len(a)))

\* normalize(vector), dividing by the length even when it is 0.
normalizeAlways(vector) ==
    LET magnitude == Sqrt(SumOfSquares(vector))
    IN  [i \in 1..Len(vector) |-> Rat(vector[i], magnitude)]

normalize(vector) ==
    LET magnitude == Sqrt(SumOfSquares(vector))
    IN  IF magnitude = 0
        THEN [i \in 1..Len(vector) |-> Rat(vector[i], 1)]
        ELSE [i \in 1..Len(vector) |-> Rat(vector[i], magnitude)]

RECURSIVE PatternSum(_)
PatternSum(patterns) ==
    IF patterns = <<>> THEN RZero ELSE RAdd(Head(patterns), PatternSum(Tail(patterns)))

\* patterns.length > 0 ? sum / length : 0.5, without the test for no samples.
contextMagnitudeOfMean(patterns) ==
    IF Len(patterns) > 0
    THEN RDiv(PatternSum(patterns), Rat(Len(patterns), 1))
    ELSE RZero

contextMagnitudeOf(patterns) ==
    IF Len(patterns) > 0
    THEN RDiv(PatternSum(patterns), Rat(Len(patterns), 1))
    ELSE Rat(1, 2)

\* measureResonance(pulse, context)
measureResonance(pulse, context) ==
    LET normalizedPulseDirection == normalize(pulse.direction)
        normalizedContextDirection == normalize(context.expectedDirection)
        directionDot == dotProduct(normalizedPulseDirection, normalizedContextDirection)
    IN  IF directionDot.threw THEN directionDot
        ELSE LET directionAlignment == RDiv(RAdd(directionDot.value[1], ROne), Rat(2, 1))
                 contextMagnitude == contextMagnitudeOf(context.patterns)
                 magnitudeAlignment == RSub(ROne, RAbs(RSub(pulse.magnitude, contextMagnitude)))
                 frequencyAlignment ==
                     RSub(ROne, RAbs(RSub(pulse.frequency, context.systemFrequency)))
                 score ==
                     RAdd(RAdd(RMul(directionAlignment, Rat(5, 10)),
                               RMul(magnitudeAlignment, Rat(3, 10))),
                          RMul(frequencyAlignment, Rat(2, 10)))
             IN  Returned([ score |-> score,
                            directionAlignment |-> directionAlignment,
                            magnitudeAlignment |-> magnitudeAlignment,
                            frequencyAlignment |-> frequencyAlignment ])

----------------------------------------------------------------------------
\* Actions of the resonance specification.

\* const resonance = measureResonance(pulse, context)
MeasureResonance ==
    /\ resonanceCall = <<>>
    /\ \E pulse \in Pulses, context \in Contexts :
          resonanceCall' =
              << [ pulse |-> pulse,
                   context |-> context,
                   outcome |-> measureResonance(pulse, context) ] >>
    /\ UNCHANGED <<now, lifecycleVars, guardVars, searchVars, concurrentVars, harmonicVars, pipelineVars>>

\* The caller is done with the measurement (or has caught the error).
ResonanceReturn ==
    /\ resonanceCall # <<>>
    /\ resonanceCall' = <<>>
    /\ UNCHANGED <<now, lifecycleVars, guardVars, searchVars, concurrentVars, harmonicVars, pipelineVars>>

ResonanceInit ==
    /\ now = 0
    /\ ideas = <<>>
    /\ lifecycleCall = <<>>
    /\ actionHistory = <<>>
    /\ guardCall = <<>>
    /\ permittedLog = <<>>
    /\ registry = <<>>
    /\ searchCall = <<>>
    /\ tasks = IdleTasks
    /\ resonanceCall = <<>>
    /\ harmonicCall = <<>>
    /\ pipeline = IdlePipeline

ResonanceNext ==
    \/ MeasureResonance
    \/ ResonanceReturn

ResonanceSpec == ResonanceInit /\ [][ResonanceNext]_vars

(***************************************************************************)
(*                  Harmonic field (lib/harmonic-field.ts)                 *)
(*                                                                         *)
(* A magnitude is held in thousandths (0.5 = 500) and a phase in units of  *)
(* pi / 5000 (-pi = -5000), the grid stringToHarmonicVector produces.  A   *)
(* 32-bit hash is held as two 16-bit halves, so that 31 * hash + char      *)
(* wraps as `hash & hash` makes it wrap.                                   *)
(***************************************************************************)
MAGNITUDE_BASE == 500
MAGNITUDE_SCALE == 500
PHASE_SCALE == 10000
HARMONIC_SIMILARITY_WEIGHT == 7
KEYWORD_MATCH_WEIGHT == 3
DEFAULT_DIM == 128
Half == 65536

\* Bounds of the harmonic model.
MaxDim == 3          \* the largest dim passed to stringToHarmonicVector
MaxVector == 2       \* the length of the vectors passed to harmonicSimilarity

\* str.charCodeAt(i) for letters, digits and the space.
CodeOf ==
    [ch \in {LowerLetters[k] : k \in 1..26} |->
        96 + (CHOOSE k \in 1..26 : LowerLetters[k] = ch)]
    @@ [ch \in {UpperLetters[k] : k \in 1..26} |->
        64 + (CHOOSE k \in 1..26 : UpperLetters[k] = ch)]
    @@ [ch \in {Digits[k] : k \in 1..10} |->
        47 + (CHOOSE k \in 1..10 : Digits[k] = ch)]
    @@ (" " :> 32)

CharCode(ch) == CodeOf[ch]

\* i.toString() for i >= 0.
RECURSIVE NumberToString(_)
NumberToString(i) ==
    IF i < 10 THEN <<Digits[i + 1]>>
    ELSE NumberToString(i \div 10) \o <<Digits[(i % 10) + 1]>>

\* hash = ((hash << 5) - hash) + char; hash = hash & hash
\* on the two's-complement bits [hi, lo] of hash.
HashStep(hash, char) ==
    LET low == 31 * hash.lo + char
    IN  [hi |-> (31 * hash.hi + (low \div Half)) % Half, lo |-> low % Half]

RECURSIVE HashChars(_, _, _)
HashChars(str, i, hash) ==
    IF i > Len(str) THEN hash
    ELSE HashChars(str, i + 1, HashStep(hash, CharCode(str[i])))

\* Math.abs of the 32-bit integer with bits [hi, lo], as halves of a
\* non-negative number (at most 2^31).
AbsOfInt32(hash) ==
    IF hash.hi < 32768 THEN hash
    ELSE IF hash.lo = 0 THEN [hi |-> Half - hash.hi, lo |-> 0]
    ELSE [hi |-> Half - 1 - hash.hi, lo |-> Half - hash.lo]

\* A hash that starts from a value of the run (the clock) instead of 0, as a
\* per-process salted string hash would.
hashStringSalted(str) == AbsOfInt32(HashChars(str, 1, [hi |-> 0, lo |-> now]))

\* let hash = 0; for each char ...; return Math.abs(hash)
hashString(str) == AbsOfInt32(HashChars(str, 1, [hi |-> 0, lo |-> 0]))

\* seed % m for a seed held in halves.
SeedMod(seed, m) == ((seed.hi % m) * (Half % m) + seed.lo) % m

\* MAGNITUDE_BASE + (seed % MAGNITUDE_SCALE) / 1000, in thousandths.
MagnitudeOf(seed) == MAGNITUDE_BASE + SeedMod(seed, MAGNITUDE_SCALE)

\* ((seed % PHASE_SCALE) / PHASE_SCALE) * 2 * Math.PI - Math.PI, in units of
\* pi / 5000; without the subtraction of Math.PI in the first definition.
PhaseOfUnshifted(seed) == SeedMod(seed, PHASE_SCALE)

PhaseOf(seed) == SeedMod(seed, PHASE_SCALE) - (PHASE_SCALE \div 2)

\* stringToHarmonicVector(text, dim): the loop runs for i = 0 .. dim - 1 and
\* not at all when dim <= 0; nothing in it throws.
stringToHarmonicVector(text, dim) ==
    Returned([ k \in 1..dim |->
                  LET seed == hashString(text \o NumberToString(k - 1))
                  IN  [magnitude |-> MagnitudeOf(seed), phase |-> PhaseOf(seed)] ])

\* The summand of harmonicSimilarity for one dimension, over 10000:
\* magSim * 0.5 + phaseSim * 0.5.
DimensionSimilaritySigned(e1, e2) ==
    LET magDiff == e1.magnitude - e2.magnitude
        magSim == 1000 - Min(magDiff, 1000)
        phaseDiff == Abs(e1.phase - e2.phase)
        circularDiff == Min(phaseDiff, PHASE_SCALE - phaseDiff)
        phaseSim == (PHASE_SCALE \div 2) - circularDiff
    IN  5 * magSim + phaseSim

DimensionSimilarity(e1, e2) ==
    LET magDiff == Abs(e1.magnitude - e2.magnitude)
        magSim == 1000 - Min(magDiff, 1000)
        phaseDiff == Abs(e1.phase - e2.phase)
        circularDiff == Min(phaseDiff, PHASE_SCALE - phaseDiff)
        phaseSim == (PHASE_SCALE \div 2) - circularDiff
    IN  5 * magSim + phaseSim

\* similaritySum after the loop over dimensions first..last; the sum of the
\* whole-number summands is taken by halves, which gives the same total.
RECURSIVE SimilaritySum(_, _, _, _)
SimilaritySum(vector1, vector2, first, last) ==
    IF first > last THEN 0
    ELSE IF first = last THEN DimensionSimilarity(vector1[first], vector2[first])
    ELSE LET middle == (first + last) \div 2
         IN  SimilaritySum(vector1, vector2, first, middle)
               + SimilaritySum(vector1, vector2, middle + 1, last)

\* harmonicSimilarity without the length check: the loop runs over vector1.
harmonicSimilarityTruncating(vector1, vector2) ==
    LET dim == Min(Len(vector1), Len(vector2))
    IN  Returned(Rat(SimilaritySum(vector1, vector2, 1, dim), 10000 * dim))

\* harmonicSimilarity(vector1, vector2): similaritySum / dim, which is 0 / 0
\* for two empty vectors.
harmonicSimilarity(vector1, vector2) ==
    IF Len(vector1) # Len(vector2) THEN Threw("Vectors must have the same dimension")
    ELSE LET dim == Len(vector1)
         IN  Returned(Rat(SimilaritySum(vector1, vector2, 1, dim), 10000 * dim))

\* keywordMatches / totalKeywords over the words of the pattern longer than
\* 3 characters (`>= 3` in the first definition), or 0 when there are none.
KeywordBoostFromThree(intentWords, patternWords) ==
    LET keywords == {word \in patternWords : Len(word) >= 3}
        matches == {word \in keywords : word \in intentWords}
    IN  IF Cardinality(keywords) > 0
        THEN Rat(Cardinality(matches), Cardinality(keywords))
        ELSE RZero

KeywordBoost(intentWords, patternWords) ==
    LET keywords == {word \in patternWords : Len(word) > 3}
        matches == {word \in keywords : word \in intentWords}
    IN  IF Cardinality(keywords) > 0
        THEN Rat(Cardinality(matches), Cardinality(keywords))
        ELSE RZero

\* calculatePatternMatchConfidence(userIntent, echoPattern)
calculatePatternMatchConfidence(userIntent, echoPattern) ==
    LET intentVector == stringToHarmonicVector(toLowerCase(userIntent), DEFAULT_DIM)
        patternVector == stringToHarmonicVector(toLowerCase(echoPattern), DEFAULT_DIM)
        baseSimilarity == harmonicSimilarity(intentVector.value[1], patternVector.value[1])
        intentWords == WordSet(toLowerCase(userIntent))
        patternWords == WordSet(toLowerCase(echoPattern))
        keywordBoost == KeywordBoost(intentWords, patternWords)
    IN  IF baseSimilarity.threw THEN baseSimilarity
        ELSE Returned(RAdd(RMul(baseSimilarity.value[1], Rat(HARMONIC_SIMILARITY_WEIGHT, 10)),
                           RMul(keywordBoost, Rat(KEYWORD_MATCH_WEIGHT, 10))))

----------------------------------------------------------------------------
\* The inputs and the actions of the harmonic specification.

ContinueTheAudit == <<"c", "o", "n", "t", "i", "n", "u", "e", " ", "t", "h", "e", " ", "a", "u", "d", "i", "t">>
AuditTheCodeSpaced == <<"A", "u", "d", "i", "t", " ", " ", "T", "H", "E", " ", " ", "c", "o", "d", "e">>
AuditTheCode == <<"a", "u", "d", "i", "t", " ", "t", "h", "e", " ", "c", "o", "d", "e">>
TheCat == <<"t", "h", "e", " ", "c", "a", "t">>
AuditAuditPlan == <<"a", "u", "d", "i", "t", " ", "a", "u", "d", "i", "t", " ", "p", "l", "a", "n">>
CodeTrailing == <<"c", "o", "d", "e", " ">>

\* Texts: an intent, texts that differ in case and spacing, the empty text, a
\* text without a word longer than 3 characters, one that repeats a word and
\* one that ends in a space.
Texts ==
    { ContinueTheAudit, AuditTheCodeSpaced, AuditTheCode, <<>>, TheCat,
      AuditAuditPlan, CodeTrailing }

\* dim values: negative, zero, small positive ones and the default.
Dims == (-1..MaxDim) \cup {DEFAULT_DIM}

\* ComplexPolar values: three on the edges of the bounds of a generated
\* element and one outside them (magnitude 2.0).
Elements ==
    { [magnitude |-> 500, phase |-> -5000],
      [magnitude |-> 1499, phase |-> 4999],
      [magnitude |-> 999, phase |-> 0],
      [magnitude |-> 2000, phase |-> 2500] }

Vectors == UNION { [1..n -> Elements] : n \in 0..MaxVector }

HarmonicCall(op, text, dim, vector1, vector2, intent, pattern, outcome) ==
    [ op |-> op, text |-> text, dim |-> dim, vector1 |-> vector1, vector2 |-> vector2,
      intent |-> intent, pattern |-> pattern, outcome |-> outcome ]

\* stringToHarmonicVector(text, dim)
Embed ==
    /\ harmonicCall = <<>>
    /\ \E text \in Texts, dim \in Dims :
          harmonicCall' =
              << HarmonicCall("stringToHarmonicVector", text, dim, <<>>, <<>>,
                              <<>>, <<>>, stringToHarmonicVector(text, dim)) >>
    /\ UNCHANGED <<now, lifecycleVars, guardVars, searchVars, concurrentVars, resonanceVars, pipelineVars>>

\* harmonicSimilarity(vector1, vector2)
HarmonicSimilarity ==
    /\ harmonicCall = <<>>
    /\ \E vector1 \in Vectors, vector2 \in Vectors :
          harmonicCall' =
              << HarmonicCall("harmonicSimilarity", <<>>, 0, vector1, vector2,
                              <<>>, <<>>, harmonicSimilarity(vector1, vector2)) >>
    /\ UNCHANGED <<now, lifecycleVars, guardVars, searchVars, concurrentVars, resonanceVars, pipelineVars>>

\* calculatePatternMatchConfidence(userIntent, echoPattern)
PatternMatchConfidence ==
    /\ harmonicCall = <<>>
    /\ \E intent \in Texts, pattern \in Texts :
          harmonicCall' =
              << HarmonicCall("calculatePatternMatchConfidence", <<>>, 0, <<>>, <<>>,
                              intent, pattern,
                              calculatePatternMatchConfidence(intent, pattern)) >>
    /\ UNCHANGED <<now, lifecycleVars, guardVars, searchVars, concurrentVars, resonanceVars, pipelineVars>>

\* The caller is done with the result (or has caught the error).
HarmonicReturn ==
    /\ harmonicCall # <<>>
    /\ harmonicCall' = <<>>
    /\ UNCHANGED <<now, lifecycleVars, guardVars, searchVars, concurrentVars, resonanceVars, pipelineVars>>

HarmonicInit ==
    /\ now = 0
    /\ ideas = <<>>
    /\ lifecycleCall = <<>>
    /\ actionHistory = <<>>
    /\ guardCall = <<>>
    /\ permittedLog = <<>>
    /\ registry = <<>>
    /\ searchCall = <<>>
    /\ tasks = IdleTasks
    /\ resonanceCall = <<>>
    /\ harmonicCall = <<>>
    /\ pipeline = IdlePipeline

HarmonicNext ==
    \/ Embed
    \/ HarmonicSimilarity
    \/ PatternMatchConfidence
    \/ HarmonicReturn

HarmonicSpec == HarmonicInit /\ [][HarmonicNext]_vars

\* stringToHarmonicVector(text, dim) called in the run that is at time `now`;
\* a second call repeats the text and dim of the first, later in the same run
\* or in a later one.  The module keeps no state between calls or runs: the
\* clock is all that tells two runs apart.
EmbedInRun ==
    /\ Len(harmonicCall) < 2
    /\ \E text \in Texts, dim \in Dims :
          /\ harmonicCall # <<>> =>
                 text = harmonicCall[1].text /\ dim = harmonicCall[1].dim
          /\ harmonicCall' = Append(harmonicCall,
                 [ op |-> "stringToHarmonicVector", text |-> text, dim |-> dim,
                   at |-> now, outcome |-> stringToHarmonicVector(text, dim) ])
    /\ UNCHANGED <<now, lifecycleVars, guardVars, searchVars, concurrentVars, resonanceVars, pipelineVars>>

EmbedPairNext ==
    \/ LifecycleTick
    \/ EmbedInRun
    \/ HarmonicReturn

EmbedPairSpec == HarmonicInit /\ [][EmbedPairNext]_vars

\* The two comparisons that check the lengths of their vectors, side by side.
VectorNext ==
    \/ (harmonicCall = <<>> /\ MeasureResonance)
    \/ (harmonicCall = <<>> /\ ResonanceReturn)
    \/ (resonanceCall = <<>> /\ HarmonicSimilarity)
    \/ (resonanceCall = <<>> /\ HarmonicReturn)

VectorSpec == HarmonicInit /\ [][VectorNext]_vars

(***************************************************************************)
(*                 runPrzPipeline (app/actions.ts)                         *)
(*                                                                         *)
(* The awaited flows are calls to a language model: what they resolve to   *)
(* is an input of the model.  Scores are in hundredths (0.90 = 90).  null  *)
(* and undefined are the empty sequence, a value v is <<v>>.               *)
(***************************************************************************)
\* The 0.9 of `result.confidenceScore >= 0.9`.
DECODE_THRESHOLD == 90

\* The minimum length of userRequest in UserRequestSchema.
MIN_REQUEST_LENGTH == 10

\* Requests: one shorter than the minimum, one long enough.
UserRequests == {TheCat, AuditTheCode}

\* Confidence scores the decoder's model answers with.
DecodedScores == {0, 89, 90, 100}

\* What decodeIntentFlow resolves to: no output, or an output of the schema.
FlowOutputs ==
    {<<>>} \cup
    { << [ intent |-> "audit the code", confidenceScore |-> c,
           intentClassification |-> "command", domain |-> "general",
           complexity |-> "simple" ] >> : c \in DecodedScores }

\* Flow scores przValidationFlow resolves to.
FlowScores == {85, 95}

\* What mintZakEchoFlow resolves to: no output, or echoMinted true or false.
MintOutputs == {<<>>, <<[echoMinted |-> FALSE]>>, <<[echoMinted |-> TRUE]>>}

\* Registries of the pipeline runs: empty, or one echo.
PipelineRegistries == {reg \in Registries : Len(reg) <= 1}

TooShort == "Request must be at least 10 characters long."
NotDecoded == "Could not decode intent with high confidence. Please rephrase your request."
FlowFailed == "flow rejected"
NoValidationOutput == "No output from przValidationPrompt"

\* decodeIntent without its confidence test.
decodeIntentUnchecked(result) == result

\* decodeIntent: `if (result && result.confidenceScore >= 0.9) return result;
\* return undefined`.
decodeIntent(result) ==
    IF result # <<>> /\ result[1].confidenceScore >= DECODE_THRESHOLD
    THEN result ELSE <<>>

\* throw inside runPrzPipeline, or a rejected await: the call ends.
PipelineThrows(message) == [pipeline EXCEPT !.pc = "threw", !.error = message]

\* runPrzPipeline(data) up to its first await: the request is parsed.
RunPrzPipeline ==
    /\ pipeline.pc = "idle"
    /\ \E userRequest \in UserRequests :
          pipeline' =
              IF Len(userRequest) < MIN_REQUEST_LENGTH
              THEN [IdlePipeline EXCEPT !.pc = "threw", !.error = TooShort]
              ELSE [IdlePipeline EXCEPT !.pc = "decode"]
    /\ UNCHANGED <<now, lifecycleVars, guardVars, searchVars, concurrentVars,
                   resonanceVars, harmonicVars>>

\* 1. const intentResult = await decodeIntent({userRequest});
\*    if (!intentResult) throw ...
AwaitDecodeIntent ==
    /\ pipeline.pc = "decode"
    /\ \/ \E output \in FlowOutputs :
             LET intentResult == decodeIntent(output)
                 called == [pipeline EXCEPT !.steps = Append(@, "decodeIntent"),
                                            !.decoded = output,
                                            !.intentResult = intentResult]
             IN  pipeline' =
                     IF intentResult = <<>>
                     THEN [called EXCEPT !.pc = "threw", !.error = NotDecoded]
                     ELSE [called EXCEPT !.pc = "search"]
       \/ pipeline' = [PipelineThrows(FlowFailed) EXCEPT
                           !.steps = Append(@, "decodeIntent")]
    /\ UNCHANGED <<now, lifecycleVars, guardVars, searchVars, concurrentVars,
                   resonanceVars, harmonicVars>>

\* 2. const zakEchoSearchResult = await searchZakEchoRegistry({...})
AwaitSearch ==
    /\ pipeline.pc = "search"
    /\ \E base \in [1..Len(registry) -> BaseConfidences] :
          LET intentResult == pipeline.intentResult[1]
              input == [ userIntent |-> intentResult.intent,
                         intentClassification |-> intentResult.intentClassification,
                         domain |-> intentResult.domain ]
          IN  /\ pipeline' =
                    [pipeline EXCEPT
                        !.pc = "validate",
                        !.steps = Append(@, "searchZakEchoRegistry"),
                        !.zakEchoSearchResult =
                            <<searchZakEchoRegistry(input, registry, base)>>]
              /\ registry' = RegistryAfterSearch(registry, base)
    /\ UNCHANGED <<now, searchCall, lifecycleVars, guardVars, concurrentVars,
                   resonanceVars, harmonicVars>>

\* 3., 4. the deliverable is built; const validationResult = await przValidation({...})
AwaitPrzValidation ==
    /\ pipeline.pc = "validate"
    /\ \/ \E flow \in FlowScores :
             pipeline' = [pipeline EXCEPT
                             !.pc = "mint",
                             !.steps = Append(@, "przValidation"),
                             !.validationResult = <<[flow |-> flow]>>]
       \/ \E message \in {NoValidationOutput, FlowFailed} :
             pipeline' = [PipelineThrows(message) EXCEPT
                             !.steps = Append(@, "przValidation")]
    /\ UNCHANGED <<now, lifecycleVars, guardVars, searchVars, concurrentVars,
                   resonanceVars, harmonicVars>>

\* 5., 6. const mintingResult = await mintZakEcho({...}); return {...}
AwaitMintZakEcho ==
    /\ pipeline.pc = "mint"
    /\ \/ \E output \in MintOutputs :
             pipeline' = [pipeline EXCEPT
                             !.pc = "returned",
                             !.steps = Append(@, "mintZakEcho"),
                             !.mintingResult = output]
       \/ pipeline' = [PipelineThrows(FlowFailed) EXCEPT
                           !.steps = Append(@, "mintZakEcho")]
    /\ UNCHANGED <<now, lifecycleVars, guardVars, searchVars, concurrentVars,
                   resonanceVars, harmonicVars>>

\* The caller has the result (or has caught the error).
PipelineDone ==
    /\ pipeline.pc \in {"returned", "threw"}
    /\ pipeline' = IdlePipeline
    /\ UNCHANGED <<now, lifecycleVars, guardVars, searchVars, concurrentVars,
                   resonanceVars, harmonicVars>>

PipelineInit ==
    /\ now = 0
    /\ ideas = <<>>
    /\ lifecycleCall = <<>>
    /\ actionHistory = <<>>
    /\ guardCall = <<>>
    /\ permittedLog = <<>>
    /\ registry \in PipelineRegistries
    /\ searchCall = <<>>
    /\ tasks = IdleTasks
    /\ resonanceCall = <<>>
    /\ harmonicCall = <<>>
    /\ pipeline = IdlePipeline

PipelineNext ==
    \/ RunPrzPipeline
    \/ AwaitDecodeIntent
    \/ AwaitSearch
    \/ AwaitPrzValidation
    \/ AwaitMintZakEcho
    \/ PipelineDone

PipelineSpec == PipelineInit /\ [][PipelineNext]_vars

----------------------------------------------------------------------------
\* Properties of detectLoop and beforeAction, stated on the last call.

\* The indices of the supplied actions that are at most 300,000 ms old at t.
WindowIndices(actions, t) ==
    {i \in 1..Len(actions) : t - actions[i].timestamp <= 300000}

LastIndex(indices) == CHOOSE i \in indices : \A j \in indices : j <= i

\* Similarity strictly above 0.7 as the claim defines similarity: 0 for
\* different types; the Jaccard index of the word sets of two strings; matching
\* keys over the key union for two objects; equality otherwise.
ClaimSimilar(a, b) ==
    /\ a.type = b.type
    /\ IF a.payload.kind = "string" /\ b.payload.kind = "string"
       THEN LET wa == WordSet(toLowerCase(a.payload.chars))
                wb == WordSet(toLowerCase(b.payload.chars))
            IN  10 * Cardinality(wa \cap wb) > 7 * Cardinality(wa \cup wb)
       ELSE IF a.payload.kind = "object" /\ b.payload.kind = "object"
       THEN LET ka == DOMAIN a.payload.entries
                kb == DOMAIN b.payload.entries
                both == {k \in ka \cap kb : a.payload.entries[k] = b.payload.entries[k]}
            IN  10 * Cardinality(both) > 7 * Cardinality(ka \cup kb)
       ELSE a.payload = b.payload

\* 1 plus the number of earlier in-window actions similar to the last one.
ClaimCount(actions, t) ==
    LET w == WindowIndices(actions, t)
        last == LastIndex(w)
    IN  1 + Cardinality({i \in w \ {last} : ClaimSimilar(actions[last], actions[i])})

C4_RepeatedCandidateBlocked ==
    \A n \in 1..Len(guardCall) :
        LET c == guardCall[n] IN
        c.op = "beforeAction" =>
            LET cand == c.candidate[1]
                r == c.result[1]
                same == {i \in WindowIndices(c.actions, c.at) :
                            /\ c.actions[i].type = cand.type
                            /\ c.actions[i].payload = cand.payload}
            IN  (Cardinality(same) >= 2 /\ c.at - cand.timestamp <= 300000) =>
                    /\ r.shouldProceed = FALSE
                    /\ r.loopDetected = TRUE
                    /\ r.reason.repetitions # <<>>
                    /\ r.reason.repetitions[1] >= 3

\* C5: fewer than 3 supplied actions at most 300,000 ms old means no loop,
\* whatever the actions; a reported count never exceeds the number of such
\* actions; and actions exactly 300,000 ms old count, so three or more supplied
\* actions that are all in the window and all carry one type and one string
\* payload are a loop of that many repetitions.
C5_OnlyActionsInWindowCount ==
    \A n \in 1..Len(guardCall) :
        LET c == guardCall[n] IN
        c.op = "detectLoop" =>
            LET d == c.detection[1]
                w == WindowIndices(c.actions, c.at)
            IN  /\ Cardinality(w) < 3 => ~d.detected
                /\ d.detected => d.repetitions <= Cardinality(w)
                /\ ( /\ Len(c.actions) >= 3
                     /\ w = 1..Len(c.actions)
                     /\ \A i \in w : /\ c.actions[i].type = c.actions[1].type
                                     /\ c.actions[i].payload = c.actions[1].payload
                                     /\ c.actions[i].payload.kind = "string" )
                   => (d.detected /\ d.repetitions = Len(c.actions))

\* Three identical actions, each exactly 300,000 ms old, are a loop.
C5_Witness ==
    \E n \in 1..Len(guardCall) :
        LET c == guardCall[n] IN
        /\ c.op = "detectLoop"
        /\ Len(c.actions) >= 3
        /\ \A i \in 1..Len(c.actions) : c.at - c.actions[i].timestamp = 300000
        /\ c.detection[1].detected

\* Three identical actions of which only two are still in the window: no loop.
C5_WitnessSpread ==
    \E n \in 1..Len(guardCall) :
        LET c == guardCall[n] IN
        /\ c.op = "detectLoop"
        /\ Len(c.actions) >= 3
        /\ \A i \in 1..Len(c.actions) : c.actions[i].payload = c.actions[1].payload
        /\ \E i \in 1..Len(c.actions) : c.at - c.actions[i].timestamp > 300000
        /\ ~c.detection[1].detected

----------------------------------------------------------------------------
\* Properties of searchZakEchoRegistry, stated on the last call.

\* The position in the searched registry of the echo a match refers to.
RegistryIndex(c, match) == CHOOSE i \in 1..Len(c.registry) : c.registry[i] = match.echo

\* C6: appliedPattern is the pattern text of the highest-confidence match
\* exactly when that match's confidence is >= 0.85 and null otherwise; it is
\* null iff no match reaches 0.85; every shouldApply equals (confidence >= 0.85).
C6_AppliedIffBestAtLeastThreshold ==
    \A n \in 1..Len(searchCall) :
        LET o == searchCall[n].output
            top == {k \in 1..Len(o.matches) :
                      \A l \in 1..Len(o.matches) :
                          o.matches[l].matchConfidence <= o.matches[k].matchConfidence}
        IN  /\ \A k \in 1..Len(o.matches) :
                  o.matches[k].shouldApply <=> (o.matches[k].matchConfidence >= 8500000)
            /\ (o.appliedPattern = <<>>) <=>
                  (\A k \in 1..Len(o.matches) : o.matches[k].matchConfidence < 8500000)
            /\ o.appliedPattern # <<>> =>
                  /\ o.bestMatch # <<>>
                  /\ o.appliedPattern[1] = o.bestMatch[1].echo.pattern
                  /\ \E k \in top : o.matches[k] = o.bestMatch[1]

\* A search whose best match sits exactly on 0.85 and is applied, next to a
\* match at 0.8499 that is not flagged.
C6_Witness ==
    \E n \in 1..Len(searchCall) :
        LET o == searchCall[n].output IN
        /\ o.bestMatch # <<>>
        /\ o.bestMatch[1].matchConfidence = 8500000
        /\ o.appliedPattern = <<o.bestMatch[1].echo.pattern>>
        /\ \E k \in 1..Len(o.matches) :
              o.matches[k].matchConfidence = 8499000 /\ ~o.matches[k].shouldApply

\* The validation count the claim reads off the validated field: n for the
\* text "<n>x", none for 'Pending' and for text that is no number.
ClaimValidationCount(echo) ==
    IF Len(echo.validated) = 2 /\ IsDigit(echo.validated[1]) /\ echo.validated[2] = "x"
    THEN <<DigitValue(echo.validated[1])>>
    ELSE <<>>

\* C7: matchConfidence is the base confidence times (1 + 0.05 n), clamped to 1,
\* when the validation count n is known, then times 1.1, clamped to 1, when the
\* echo is PERMANENT with baseline confidence >= 0.9; it is never above 1 and
\* never below the base confidence.  (Numerators over 10000000.)
C7_BoostsInOrderAndClamped ==
    \A n \in 1..Len(searchCall) :
        LET c == searchCall[n] IN
        \A k \in 1..Len(c.output.matches) :
            LET m == c.output.matches[k]
                base == c.base[RegistryIndex(c, m)] * 1000
                count == ClaimValidationCount(m.echo)
                validated ==
                    IF count # <<>>
                    THEN LET boosted == (base * (100 + 5 * count[1])) \div 100
                         IN  IF boosted > 10000000 THEN 10000000 ELSE boosted
                    ELSE base
                permanent ==
                    IF m.echo.ttl = "PERMANENT" /\ m.echo.confidence >= 90
                    THEN LET boosted == (validated * 11) \div 10
                         IN  IF boosted > 10000000 THEN 10000000 ELSE boosted
                    ELSE validated
            IN  /\ m.matchConfidence = permanent
                /\ m.matchConfidence <= 10000000
                /\ m.matchConfidence >= base

\* The 0.97 / 3x / PERMANENT echo with base 0.8499: both boosts apply and the
\* product 1.0751... is clamped to 1.
C7_Witness ==
    \E n \in 1..Len(searchCall) :
        LET c == searchCall[n] IN
        \E k \in 1..Len(c.output.matches) :
            LET m == c.output.matches[k] IN
            /\ m.echo.id = "zak_complete_100_percent"
            /\ c.base[RegistryIndex(c, m)] = 8499
            /\ m.matchConfidence = 10000000

\* C8: one match per registry echo, in descending order of matchConfidence
\* with ties in registry order; bestMatch is the first entry; an empty registry
\* gives matches = [], bestMatch = null, appliedPattern = null.
C8_OneMatchEachSortedStable ==
    \A n \in 1..Len(searchCall) :
        LET c == searchCall[n]
            o == c.output
        IN  /\ Len(o.matches) = Len(c.registry)
            /\ \A i \in 1..Len(c.registry) :
                  Cardinality({k \in 1..Len(o.matches) : o.matches[k].echo = c.registry[i]}) = 1
            /\ \A k, l \in 1..Len(o.matches) :
                  k < l =>
                      /\ o.matches[k].matchConfidence >= o.matches[l].matchConfidence
                      /\ o.matches[k].matchConfidence = o.matches[l].matchConfidence
                            => RegistryIndex(c, o.matches[k]) < RegistryIndex(c, o.matches[l])
            /\ o.bestMatch = IF Len(o.matches) > 0 THEN <<o.matches[1]>> ELSE <<>>
            /\ c.registry = <<>> =>
                  o = [matches |-> <<>>, bestMatch |-> <<>>, appliedPattern |-> <<>>]

\* Three matches: the last registry entry ranks first, the other two tie and
\* keep their registry order.
C8_Witness ==
    \E n \in 1..Len(searchCall) :
        LET c == searchCall[n]
            o == c.output
        IN  /\ Len(o.matches) = 3
            /\ o.matches[1].echo = c.registry[3]
            /\ o.matches[2].echo = c.registry[1]
            /\ o.matches[3].echo = c.registry[2]
            /\ o.matches[1].matchConfidence > o.matches[2].matchConfidence
            /\ o.matches[2].matchConfidence = o.matches[3].matchConfidence

\* The search of an empty registry.
C8_WitnessEmpty ==
    \E n \in 1..Len(searchCall) :
        /\ searchCall[n].registry = <<>>
        /\ searchCall[n].output.matches = <<>>
        /\ searchCall[n].output.bestMatch = <<>>
        /\ searchCall[n].output.appliedPattern = <<>>

----------------------------------------------------------------------------
\* Properties of checkCrystallization, stated on the last call.

\* The threshold and the revert count a call runs with, read off its config
\* argument and the documented defaults (0.95 and 3).
CallThreshold(c) ==
    IF "crystallizationThreshold" \in DOMAIN c.config
    THEN c.config["crystallizationThreshold"] ELSE 950

CallRevertCount(c) ==
    IF "vaporRevertThreshold" \in DOMAIN c.config
    THEN c.config["vaporRevertThreshold"] ELSE 3

\* The last n readings of h are all below threshold T, and there are n of them.
LastAllBelow(h, n, T) ==
    /\ Len(h) >= n
    /\ \A i \in 1..Len(h) : i > Len(h) - n => h[i] < T

\* C1: a Vapor idea comes back Crystal exactly when the score fed on that call
\* is >= crystallizationThreshold (inclusive); otherwise it comes back Vapor.
C1_VaporPromotedIffAtThreshold ==
    \A i \in 1..Len(lifecycleCall) :
        LET c == lifecycleCall[i] IN
        c.idea.state = VAPOR =>
            /\ (c.returned.state = CRYSTAL) <=> (c.score >= CallThreshold(c))
            /\ (c.returned.state = VAPOR) <=> (c.score < CallThreshold(c))

\* A Vapor idea fed exactly 0.95 under the default config is Crystal on return.
C1_Witness ==
    \E i \in 1..Len(lifecycleCall) :
        LET c == lifecycleCall[i] IN
        /\ c.idea.state = VAPOR
        /\ c.config = NoConfig
        /\ c.score = 950
        /\ c.returned.state = CRYSTAL

C9_ArgumentUntouchedHistoryAppended ==
    \A i \in 1..Len(lifecycleCall) :
        LET c == lifecycleCall[i] IN
        /\ c.ideaAfter = c.idea
        /\ c.returned.resonanceHistory = c.idea.resonanceHistory \o <<c.score>>
        /\ c.returned.id = c.idea.id
        /\ c.returned.content = c.idea.content
        /\ c.returned.createdAt = c.idea.createdAt
        /\ c.returned.metadata = c.idea.metadata

\* A call on an idea that already holds readings, which also flips its state.
C9_Witness ==
    \E i \in 1..Len(lifecycleCall) :
        LET c == lifecycleCall[i] IN
        /\ Len(c.idea.resonanceHistory) >= 2
        /\ c.returned.state # c.idea.state
        /\ c.idea.metadata # NoConfig

\* C10: a call that returns the state it was given returns the lastStateChange
\* it was given.
C10_StampKeptWhenStateKept ==
    \A i \in 1..Len(lifecycleCall) :
        LET c == lifecycleCall[i] IN
        c.returned.state = c.idea.state =>
            c.returned.lastStateChange = c.idea.lastStateChange

\* A Crystal idea stays Crystal on a call made later than its last change.
C10_Witness ==
    \E i \in 1..Len(lifecycleCall) :
        LET c == lifecycleCall[i] IN
        /\ c.idea.state = CRYSTAL
        /\ c.returned.state = CRYSTAL
        /\ c.at > c.idea.lastStateChange
        /\ c.returned.lastStateChange = c.idea.lastStateChange

----------------------------------------------------------------------------
\* Properties of beforeAction over the action types.

RephraseAdvice == "Try rephrasing your question or exploring a different aspect of the topic."
RefineAdvice == "Consider refining your requirements or trying a different approach."
StrategyAdvice == "Try a different modification strategy or review the current state first."
VerifyAdvice == "Verify the target exists and consider if removal is necessary."
GenericAdvice == "Consider taking a different approach or exploring alternative options."

\* The fixed mapping from a type name (compared without regard to case).
ClaimPivot(type) ==
    LET name == IF type = "Query" THEN "query" ELSE type IN
    IF name = "query" \/ name = "search" THEN RephraseAdvice
    ELSE IF name = "create" \/ name = "generate" THEN RefineAdvice
    ELSE IF name = "update" \/ name = "modify" THEN StrategyAdvice
    ELSE IF name = "delete" \/ name = "remove" THEN VerifyAdvice
    ELSE GenericAdvice

\* C11: beforeAction(candidate, history) returns loopDetected equal to
\* detectLoop(history followed by candidate).detected and shouldProceed equal to
\* its negation; suggestedPivot is present exactly when the action is blocked
\* and is then the text the fixed mapping gives for the candidate's type; with
\* fewer than two actions in the history the candidate proceeds.
C11_BeforeActionFollowsDetectLoop ==
    \A n \in 1..Len(guardCall) :
        LET c == guardCall[n] IN
        c.op = "beforeAction" =>
            LET cand == c.candidate[1]
                r == c.result[1]
                d == detectLoop(c.actions \o <<cand>>, c.at)
            IN  /\ r.loopDetected = d.detected
                /\ r.shouldProceed = ~r.loopDetected
                /\ ("suggestedPivot" \in DOMAIN r) <=> ~r.shouldProceed
                /\ ~r.shouldProceed => r.suggestedPivot = ClaimPivot(cand.type)
                /\ Len(c.actions) < 2 => r.shouldProceed

\* A blocked 'delete' candidate whose history also holds an action of another
\* type: the advice is the one for delete/remove.
C11_Witness ==
    \E n \in 1..Len(guardCall) :
        LET c == guardCall[n] IN
        /\ c.op = "beforeAction"
        /\ c.candidate[1].type = "delete"
        /\ \E i \in 1..Len(c.actions) : c.actions[i].type # "delete"
        /\ ~c.result[1].shouldProceed
        /\ c.result[1].suggestedPivot = VerifyAdvice

\* A candidate that proceeds after two actions of its type that have left the
\* window: no pivot is suggested.
C11_WitnessProceeds ==
    \E n \in 1..Len(guardCall) :
        LET c == guardCall[n] IN
        /\ c.op = "beforeAction"
        /\ Len(c.actions) >= 2
        /\ \A i \in 1..Len(c.actions) : c.actions[i].type = c.candidate[1].type
        /\ c.result[1].shouldProceed
        /\ "suggestedPivot" \notin DOMAIN c.result[1]

----------------------------------------------------------------------------
\* Properties of concurrent calls.

\* C12: in every interleaving of the callers' steps, a call leaves the idea
\* and the history it was given as they were, and returns what the same call
\* returns when it runs alone on them; a returned idea holds the shared idea's
\* history followed by the call's own score and nothing of another call.
C12_ConcurrentCallsAsIfAlone ==
    \A t \in Tasks :
        LET c == tasks[t] IN
        /\ c.pc # "idle" => (ideas = c.idea /\ actionHistory = c.history)
        /\ (c.pc = "done" /\ c.op = "checkCrystallization") =>
              /\ c.result[1] =
                    checkCrystallization(c.idea[1], [score |-> c.score], NoConfig, c.at).returned
              /\ c.result[1].resonanceHistory = c.idea[1].resonanceHistory \o <<c.score>>
        /\ (c.pc = "done" /\ c.op = "beforeAction") =>
              c.result[1] = beforeAction(c.candidate[1], c.history, c.at)

\* Two checkCrystallization calls on one crystallized idea have both returned,
\* one with a low and one with a high reading: one result has reverted to
\* Vapor, the other is still Crystal, and neither holds the other's reading.
C12_Witness ==
    \E t, u \in Tasks :
        /\ t # u
        /\ tasks[t].pc = "done" /\ tasks[t].op = "checkCrystallization"
        /\ tasks[u].pc = "done" /\ tasks[u].op = "checkCrystallization"
        /\ tasks[t].score = 800 /\ tasks[u].score = 950
        /\ tasks[t].result[1].state = VAPOR
        /\ tasks[u].result[1].state = CRYSTAL
        /\ Len(tasks[t].result[1].resonanceHistory) = Len(ideas[1].resonanceHistory) + 1
        /\ Len(tasks[u].result[1].resonanceHistory) = Len(ideas[1].resonanceHistory) + 1

\* A beforeAction call that was blocked has returned while a
\* checkCrystallization call is between its copy and its return.
C12_WitnessMixed ==
    \E t, u \in Tasks :
        /\ t # u
        /\ tasks[t].pc = "done" /\ tasks[t].op = "beforeAction"
        /\ ~tasks[t].result[1].shouldProceed
        /\ tasks[u].pc = "copied" /\ tasks[u].op = "checkCrystallization"

----------------------------------------------------------------------------
\* Properties of measureResonance, stated on the last call.

InUnitInterval(x) == RLeq(RZero, x) /\ RLeq(x, ROne)

\* The inputs of a call satisfy the data model: magnitude, frequency and
\* systemFrequency in [0, 1] and direction vectors of one length.
SatisfiesDataModel(c) ==
    /\ InUnitInterval(c.pulse.magnitude)
    /\ InUnitInterval(c.pulse.frequency)
    /\ InUnitInterval(c.context.systemFrequency)
    /\ Len(c.pulse.direction) = Len(c.context.expectedDirection)

\* C13: for every pulse and context that satisfy the data model, with
\* context.patterns any sequence of numbers, measureResonance returns a score
\* and direction, magnitude and frequency alignments that each lie in [0, 1].
C13_ResonanceInUnitInterval ==
    \A n \in 1..Len(resonanceCall) :
        LET c == resonanceCall[n] IN
        SatisfiesDataModel(c) =>
            /\ ~c.outcome.threw
            /\ InUnitInterval(c.outcome.value[1].score)
            /\ InUnitInterval(c.outcome.value[1].directionAlignment)
            /\ InUnitInterval(c.outcome.value[1].magnitudeAlignment)
            /\ InUnitInterval(c.outcome.value[1].frequencyAlignment)

IsZeroVector(vector) == \A i \in 1..Len(vector) : vector[i] = 0

\* C15: measureResonance does not fail on degenerate inputs of equal length:
\* when either direction vector has magnitude 0 the direction alignment is
\* exactly 0.5, and when context.patterns is empty the magnitude alignment is
\* 1 - |pulse.magnitude - 0.5|.
C15_DegenerateInputsScored ==
    \A n \in 1..Len(resonanceCall) :
        LET c == resonanceCall[n] IN
        Len(c.pulse.direction) = Len(c.context.expectedDirection) =>
            /\ ~c.outcome.threw
            /\ (IsZeroVector(c.pulse.direction) \/ IsZeroVector(c.context.expectedDirection)) =>
                  c.outcome.value[1].directionAlignment = [num |-> 1, den |-> 2]
            /\ c.context.patterns = <<>> =>
                  LET m == c.pulse.magnitude
                      distance == IF 2 * m.num >= m.den
                                  THEN Rat(2 * m.num - m.den, 2 * m.den)
                                  ELSE Rat(m.den - 2 * m.num, 2 * m.den)
                  IN  c.outcome.value[1].magnitudeAlignment =
                          Rat(distance.den - distance.num, distance.den)

\* A zero pulse direction against a non-zero expected direction, with no
\* pattern samples and magnitude 1: alignments 0.5 and 0.5.
C15_Witness ==
    \E n \in 1..Len(resonanceCall) :
        LET c == resonanceCall[n] IN
        /\ Len(c.pulse.direction) = 2
        /\ IsZeroVector(c.pulse.direction)
        /\ Len(c.context.expectedDirection) = 2
        /\ ~IsZeroVector(c.context.expectedDirection)
        /\ c.context.patterns = <<>>
        /\ c.pulse.magnitude = [num |-> 1, den |-> 1]
        /\ ~c.outcome.threw
        /\ c.outcome.value[1].directionAlignment = [num |-> 1, den |-> 2]
        /\ c.outcome.value[1].magnitudeAlignment = [num |-> 1, den |-> 2]

----------------------------------------------------------------------------
\* Properties of the comparisons of two vectors.

\* C14: harmonicSimilarity(v1, v2) and measureResonance(pulse, context) throw
\* whenever the two vectors they compare differ in length, whatever the other
\* inputs are; they return no value in that case.
C14_LengthMismatchThrows ==
    /\ \A n \in 1..Len(resonanceCall) :
          LET c == resonanceCall[n] IN
          Len(c.pulse.direction) # Len(c.context.expectedDirection) =>
              (c.outcome.threw /\ c.outcome.value = <<>>)
    /\ \A n \in 1..Len(harmonicCall) :
          LET c == harmonicCall[n] IN
          (c.op = "harmonicSimilarity" /\ Len(c.vector1) # Len(c.vector2)) =>
              (c.outcome.threw /\ c.outcome.value = <<>>)

\* measureResonance has thrown on a zero direction of length 1 against an
\* expected direction of length 2.
C14_Witness ==
    \E n \in 1..Len(resonanceCall) :
        LET c == resonanceCall[n] IN
        /\ c.pulse.direction = <<0>>
        /\ Len(c.context.expectedDirection) = 2
        /\ c.outcome.threw

\* harmonicSimilarity has thrown on the empty vector against a vector of
\* length 2.
C14_WitnessHarmonic ==
    \E n \in 1..Len(harmonicCall) :
        LET c == harmonicCall[n] IN
        /\ c.op = "harmonicSimilarity"
        /\ c.vector1 = <<>>
        /\ Len(c.vector2) = 2
        /\ c.outcome.threw

----------------------------------------------------------------------------
\* Properties of harmonic-field.ts, stated on the last call.

\* C16: stringToHarmonicVector(text, dim) fails with an error when dim <= 0
\* and succeeds for every text when dim > 0.
C16_EmbedFailsOnlyOnBadDim ==
    \A n \in 1..Len(harmonicCall) :
        LET c == harmonicCall[n] IN
        c.op = "stringToHarmonicVector" =>
            /\ c.dim <= 0 => c.outcome.threw
            /\ c.dim > 0 => ~c.outcome.threw

\* C17: for every text and dim > 0 the vector has exactly dim elements, each
\* with magnitude in [0.5, 1.5) and phase in [-pi, pi); element i (from 0) has
\* magnitude 0.5 + (seed mod 500) / 1000 and phase
\* ((seed mod 10000) / 10000) * 2 pi - pi for seed = hash(text ++ i).
C17_EmbedShapeAndBounds ==
    \A n \in 1..Len(harmonicCall) :
        LET c == harmonicCall[n] IN
        (c.op = "stringToHarmonicVector" /\ c.dim > 0) =>
            /\ ~c.outcome.threw
            /\ Len(c.outcome.value[1]) = c.dim
            /\ \A k \in 1..c.dim :
                  LET e == c.outcome.value[1][k]
                      seed == hashString(c.text \o NumberToString(k - 1))
                      seedMod500 == ((seed.hi % 500) * 36 + seed.lo) % 500
                      seedMod10000 == ((seed.hi % 10000) * 5536 + seed.lo) % 10000
                  IN  /\ 500 <= e.magnitude /\ e.magnitude < 1500
                      /\ -5000 <= e.phase /\ e.phase < 5000
                      /\ e.magnitude = 500 + seedMod500
                      /\ e.phase = seedMod10000 - 5000

\* 'audit the code' at dim 3: (0.867, 1367 pi/5000), (0.868, 1368 pi/5000),
\* (0.869, 1369 pi/5000).
C17_Witness ==
    \E n \in 1..Len(harmonicCall) :
        LET c == harmonicCall[n] IN
        /\ c.op = "stringToHarmonicVector"
        /\ c.text = AuditTheCode
        /\ c.dim = 3
        /\ c.outcome.value[1] =
              << [magnitude |-> 867, phase |-> 1367],
                 [magnitude |-> 868, phase |-> 1368],
                 [magnitude |-> 869, phase |-> 1369] >>

\* The elements of a vector satisfy the bounds of a generated element.
InEmbeddingBounds(vector) ==
    \A k \in 1..Len(vector) :
        /\ 500 <= vector[k].magnitude /\ vector[k].magnitude < 1500
        /\ -5000 <= vector[k].phase /\ vector[k].phase < 5000

\* C18: for two equal-length vectors whose elements satisfy the bounds,
\* harmonicSimilarity returns a value in [0, 1]; for any intent and pattern,
\* calculatePatternMatchConfidence returns a value in [0, 1].
C18_SimilarityAndConfidenceInUnitInterval ==
    \A n \in 1..Len(harmonicCall) :
        LET c == harmonicCall[n] IN
        /\ ( /\ c.op = "harmonicSimilarity"
             /\ Len(c.vector1) = Len(c.vector2)
             /\ InEmbeddingBounds(c.vector1)
             /\ InEmbeddingBounds(c.vector2) )
           => (~c.outcome.threw /\ InUnitInterval(c.outcome.value[1]))
        /\ c.op = "calculatePatternMatchConfidence"
           => (~c.outcome.threw /\ InUnitInterval(c.outcome.value[1]))

\* The per-dimension score of the claim, over 10000:
\* 0.5 (1 - min(|magnitude difference|, 1)) + 0.5 (1 - circular distance / pi).
ClaimDimensionScore(a, b) ==
    LET dm == IF a.magnitude >= b.magnitude
              THEN a.magnitude - b.magnitude ELSE b.magnitude - a.magnitude
        dp == IF a.phase >= b.phase THEN a.phase - b.phase ELSE b.phase - a.phase
        circular == IF dp <= 10000 - dp THEN dp ELSE 10000 - dp
    IN  5 * (1000 - (IF dm < 1000 THEN dm ELSE 1000)) + (5000 - circular)

\* The sum of the per-dimension scores over the dimensions first..last.
RECURSIVE ClaimScoreSum(_, _, _, _)
ClaimScoreSum(a, b, first, last) ==
    IF first > last THEN 0
    ELSE IF first = last THEN ClaimDimensionScore(a[first], b[first])
    ELSE ClaimScoreSum(a, b, first, (first + last) \div 2)
           + ClaimScoreSum(a, b, ((first + last) \div 2) + 1, last)

ClaimKeywordOverlap(intent, pattern) ==
    LET intentWords == WordSet(toLowerCase(intent))
        long == {w \in WordSet(toLowerCase(pattern)) : Len(w) >= 4}
        found == long \cap intentWords
    IN  IF long = {} THEN [num |-> 0, den |-> 1]
        ELSE [num |-> Cardinality(found), den |-> Cardinality(long)]

\* C20: calculatePatternMatchConfidence(intent, pattern) is 0.7 times the
\* harmonicSimilarity of the vectors of the lower-cased intent and pattern
\* plus 0.3 times the keyword overlap.
C20_ConfidenceIsWeightedSum ==
    \A n \in 1..Len(harmonicCall) :
        LET c == harmonicCall[n] IN
        c.op = "calculatePatternMatchConfidence" =>
            LET a == stringToHarmonicVector(toLowerCase(c.intent), 128).value[1]
                b == stringToHarmonicVector(toLowerCase(c.pattern), 128).value[1]
                \* harmonicSimilarity(a, b) = total / 1280000
                total == ClaimScoreSum(a, b, 1, 128)
                overlap == ClaimKeywordOverlap(c.intent, c.pattern)
            IN  /\ ~c.outcome.threw
                /\ harmonicSimilarity(a, b).value[1] = Rat(total, 1280000)
                \* 7/10 (total / 1280000) + 3/10 (overlap.num / overlap.den)
                /\ c.outcome.value[1] =
                      Rat(7 * total * overlap.den + 3 * overlap.num * 1280000,
                          12800000 * overlap.den)

\* 'Audit  THE  code' against the pattern 'audit audit plan': one of the two
\* long pattern words is found, and the confidence is 2131027 / 3200000.
C20_Witness ==
    \E n \in 1..Len(harmonicCall) :
        LET c == harmonicCall[n] IN
        /\ c.op = "calculatePatternMatchConfidence"
        /\ c.intent = AuditTheCodeSpaced
        /\ c.pattern = AuditAuditPlan
        /\ ClaimKeywordOverlap(c.intent, c.pattern) = [num |-> 1, den |-> 2]
        /\ c.outcome.value[1] = [num |-> 2131027, den |-> 3200000]


LaterSteps == {"searchZakEchoRegistry", "przValidation", "mintZakEcho"}

StepOrder == <<"decodeIntent", "searchZakEchoRegistry", "przValidation", "mintZakEcho">>

C24_WitnessRejected ==
    /\ pipeline.pc = "threw"
    /\ pipeline.error = NotDecoded
    /\ pipeline.steps = <<"decodeIntent">>
    /\ pipeline.decoded # <<>>
    /\ pipeline.decoded[1].confidenceScore = 89
    /\ pipeline.intentResult = <<>>

(***************************************************************************)
(*                  Claims about the lifecycle, continued                  *)
(***************************************************************************)
\* At least one of the last min(n, length) readings of h is >= T.
RecentReadingAtLeast(h, n, T) ==
    \E i \in (Len(h) - Min(n, Len(h)) + 1)..Len(h) : h[i] >= T

\* C25: from createIdea (Vapor, empty history, createdAt = lastStateChange)
\* and any sequence of checkCrystallization calls with one fixed config
\* (threshold T, vaporRevertThreshold N >= 1), the idea is Crystal exactly
\* when one of its last min(N, history length) readings is >= T; so a revert
\* to Vapor happens only with N sub-threshold readings behind the reading
\* that crystallized the idea.
C25_CrystalIffRecentReadingAtThreshold ==
    ideas # <<>> =>
        LET idea == ideas[1]
            h == idea.resonanceHistory
        IN  /\ lifecycleCall = <<>> =>
                   /\ idea.state = VAPOR
                   /\ h = <<>>
                   /\ idea.createdAt = idea.lastStateChange
            /\ (lifecycleCall # <<>> /\ CallRevertCount(lifecycleCall[1]) >= 1) =>
                   LET T == CallThreshold(lifecycleCall[1])
                       N == CallRevertCount(lifecycleCall[1])
                   IN  /\ idea.state = CRYSTAL <=> RecentReadingAtLeast(h, N, T)
                       /\ (lifecycleCall[1].idea.state = CRYSTAL /\ idea.state = VAPOR) =>
                              /\ Len(h) >= N + 1
                              /\ \A i \in (Len(h) - N + 1)..Len(h) : h[i] < T
                              /\ \E j \in 1..(Len(h) - N) : h[j] >= T

\* Under the default config: crystallized by 0.95, then 0.80 three times; the
\* idea is Vapor again after the fourth reading.
C25_Witness ==
    /\ ideas # <<>>
    /\ lifecycleCall # <<>>
    /\ lifecycleCall[1].config = NoConfig
    /\ ideas[1].resonanceHistory = <<950, 800, 800, 800>>
    /\ lifecycleCall[1].idea.state = CRYSTAL
    /\ ideas[1].state = VAPOR

\* Under the default config: Crystal with two sub-threshold readings behind
\* the crystallizing one.
C25_WitnessHeld ==
    /\ ideas # <<>>
    /\ lifecycleCall # <<>>
    /\ lifecycleCall[1].config = NoConfig
    /\ ideas[1].resonanceHistory = <<800, 950, 949, 800>>
    /\ ideas[1].state = CRYSTAL

C26_WitnessBelow ==
    /\ lifecycleCall # <<>>
    /\ lifecycleCall[1].idea.state = VAPOR
    /\ lifecycleCall[1].config = NoConfig
    /\ lifecycleCall[1].score = 949
    /\ ~lifecycleCall[1].shouldCrystallize
    /\ lifecycleCall[1].returned.state = VAPOR

(***************************************************************************)
(*                    Claims about GOOSEGUARD, continued                   *)
(***************************************************************************)
\* C27: whenever beforeAction(candidate, history) reports a loop, the loop is
\* about the candidate, whatever the timestamps: the candidate is one of the
\* in-window actions, the reported count is the candidate plus the in-window
\* history actions similar to it, and the reported pattern is candidate.type.
C27_LoopIsAboutCandidate ==
    \A n \in 1..Len(guardCall) :
        LET c == guardCall[n] IN
        (c.op = "beforeAction" /\ c.result[1].loopDetected) =>
            LET cand == c.candidate[1]
                r == c.result[1]
                similar == {i \in WindowIndices(c.actions, c.at) :
                               ClaimSimilar(cand, c.actions[i])}
            IN  /\ c.at - cand.timestamp <= 300000
                /\ r.reason.repetitions = <<1 + Cardinality(similar)>>
                /\ r.reason.pattern = <<cand.type>>

\* The timestamps of actions are non-decreasing and none is later than t.
TimeOrderedUpTo(actions, t) ==
    /\ \A i \in 1..(Len(actions) - 1) : actions[i].timestamp <= actions[i + 1].timestamp
    /\ \A i \in 1..Len(actions) : actions[i].timestamp <= t

\* C28: for a fixed history with non-decreasing timestamps, none in the
\* future, detectLoop can go from detected to not-detected as the clock
\* advances but never back, and it is not-detected at every time later than
\* 300,000 ms after the newest action's timestamp.
C28_DetectionOnlyExpires ==
    /\ Len(guardCall) = 2 =>
           LET first == guardCall[1]
               second == guardCall[2]
           IN  (/\ first.op = "detectLoop" /\ second.op = "detectLoop"
                /\ first.actions = second.actions
                /\ first.at <= second.at
                /\ TimeOrderedUpTo(first.actions, first.at))
               => (second.detection[1].detected => first.detection[1].detected)
    /\ \A n \in 1..Len(guardCall) :
           LET c == guardCall[n] IN
           (/\ c.op = "detectLoop"
            /\ c.actions # <<>>
            /\ TimeOrderedUpTo(c.actions, c.at)
            /\ c.at > c.actions[Len(c.actions)].timestamp + 300000)
           => ~c.detection[1].detected

\* Three similar queries stamped 0, 1, 1: a loop at time 1, none any more at
\* time 300,001, when the first has left the window.
C28_Witness ==
    /\ Len(guardCall) = 2
    /\ guardCall[1].actions = guardCall[2].actions
    /\ Len(guardCall[1].actions) = 3
    /\ guardCall[1].actions[1].timestamp = 0
    /\ guardCall[1].actions[3].timestamp = 1
    /\ guardCall[1].at = 1
    /\ guardCall[2].at = 300001
    /\ guardCall[1].detection[1].detected
    /\ ~guardCall[2].detection[1].detected

\* Three similar queries stamped 1: still a loop at 300,001, none at 300,002.
C28_WitnessExpired ==
    /\ Len(guardCall) = 2
    /\ guardCall[1].actions = guardCall[2].actions
    /\ Len(guardCall[1].actions) = 3
    /\ guardCall[1].actions[3].timestamp = 1
    /\ guardCall[1].at = 300001
    /\ guardCall[2].at = 300002
    /\ guardCall[1].detection[1].detected
    /\ ~guardCall[2].detection[1].detected

\* The actions of log similar to cand and less than 5 minutes old at time t.
FreshSimilar(log, cand, t) ==
    {i \in 1..Len(log) : ClaimSimilar(cand, log[i]) /\ t - log[i].timestamp < 300000}

\* C29: under the caller protocol (every submission checked with beforeAction
\* against the kept history, only a permitted action appended, the history
\* then cut to its last 10 entries) an action is never permitted while at
\* least two previously permitted actions with similarity > 0.7 to it are
\* less than 5 minutes old.
C29_NeverPermittedAfterTwoFreshSimilar ==
    \A n \in 1..Len(guardCall) :
        LET c == guardCall[n] IN
        (c.op = "onSubmit" /\ c.result[1].shouldProceed) =>
            Cardinality(FreshSimilar(c.log, c.candidate[1], c.at)) < 2

\* C29 as it holds: the kept history is the last 10 permitted actions, and an
\* action is never permitted while at least two of those are similar to it
\* and less than 5 minutes old.
C29_NeverPermittedAfterTwoFreshSimilarKept ==
    /\ actionHistory = SubSeq(permittedLog,
                              Len(permittedLog) - Min(10, Len(permittedLog)) + 1,
                              Len(permittedLog))
    /\ \A n \in 1..Len(guardCall) :
           LET c == guardCall[n] IN
           c.op = "onSubmit" =>
               /\ c.actions = SubSeq(c.log, Len(c.log) - Min(10, Len(c.log)) + 1, Len(c.log))
               /\ c.result[1].shouldProceed =>
                      Cardinality(FreshSimilar(c.actions, c.candidate[1], c.at)) < 2

\* A submission blocked by two fresh similar actions among eleven permitted
\* ones, the oldest of which has been cut from the kept history.
C29_Witness ==
    /\ guardCall # <<>>
    /\ guardCall[1].op = "onSubmit"
    /\ Len(guardCall[1].log) = 11
    /\ Len(guardCall[1].actions) = 10
    /\ ~guardCall[1].result[1].shouldProceed
    /\ Cardinality(FreshSimilar(guardCall[1].actions, guardCall[1].candidate[1],
                                guardCall[1].at)) = 2

\* C30: the two clamped boosts in either order give the same matchConfidence,
\* and so the same shouldApply, for every base confidence in [0, 1] and every
\* validation count.
C30_BoostsCommute ==
    \A i \in 1..Len(searchCall) :
        searchCall[i].op = "boosts" =>
            /\ searchCall[i].matchConfidence = searchCall[i].swapped
            /\ searchCall[i].shouldApply = searchCall[i].swappedShouldApply

\* C30 as it holds: the two orders give values in [base, 1] that lie at most
\* two units in the last place apart, and the same value when the validation
\* count is 0; shouldApply follows the value of the order taken.
C30_BoostsAgreeWithinRounding ==
    \A i \in 1..Len(searchCall) :
        searchCall[i].op = "boosts" =>
            LET c == searchCall[i]
            IN  /\ WithinUlps(c.matchConfidence, c.swapped, 2)
                /\ ~DoubleLess(DoubleOne, c.matchConfidence)
                /\ ~DoubleLess(DoubleOne, c.swapped)
                /\ ~DoubleLess(c.matchConfidence, c.baseConfidence)
                /\ ~DoubleLess(c.swapped, c.baseConfidence)
                /\ (c.validationCount = 0 => c.matchConfidence = c.swapped)
                /\ c.shouldApply = ~DoubleLess(c.matchConfidence, DoubleApplyThreshold)

\* 0.6719367588932805 boosted for '3x' then PERMANENT is exactly 0.85 and
\* applies; in the opposite order it is the double below 0.85 and does not.
C30_Witness ==
    /\ searchCall # <<>>
    /\ searchCall[1].op = "boosts"
    /\ searchCall[1].baseConfidence = [m |-> <<2298, 1133, 97, 2817, 1>>, e |-> -53]
    /\ searchCall[1].validationCount = 3
    /\ searchCall[1].matchConfidence = DoubleApplyThreshold
    /\ searchCall[1].shouldApply
    /\ DoubleSucc(searchCall[1].swapped) = DoubleApplyThreshold
    /\ ~searchCall[1].swappedShouldApply

====
